---- MODULE Spec2Model ----
(***************************************************************************)
(* A model of the invoice generator's numbering service, of the extraction *)
(* engine's reconciliation steps and of the POST /api/extract handler.     *)
(*                                                                         *)
(* Text is modelled as a sequence of one-character strings, so that        *)
(* formatting and parsing are computed digit by digit.  An optional value  *)
(* (a localStorage slot that may hold null, a field that may be absent     *)
(* from a Partial<InvoiceData>) is a record [def, val].                    *)
(***************************************************************************)
EXTENDS Integers, Sequences, FiniteSets, TLC

VARIABLES
    localStorage,   \* the slot localStorage['invoice_last_number']
    currentYear,    \* new Date().getFullYear()
    calls,          \* history: one record per finished generateNext() call
    roundTrip,      \* a formatInvoiceNumber / parseInvoiceNumber exercise
    parserCall,     \* one call of a method of the engine: its arguments and result
    parsedText,     \* what the parsers found in the text of an extraction
    regexResults,   \* first argument of mergeExtractionResults
    aiResults,      \* second argument of mergeExtractionResults
    merged,         \* the value mergeExtractionResults returned
    mergePc,        \* how far the extraction has got
    request,        \* the body of a POST /api/extract request
    geminiApiKey,   \* whether process.env.GEMINI_API_KEY is set
    routePc,        \* where the POST handler stands
    aiCallCount,    \* how many times the handler called engine.extractWithAI
    generation,     \* the promise of model.generateContent(prompt)
    timer,          \* the 15 s timer behind timeoutPromise
    race,           \* the promise of Promise.race([generation, timeout])
    finalResults,   \* the handler's finalResults, the argument of mergeResults
    extractionMethod, \* the handler's extractionMethod
    aiError,        \* the handler's aiError
    mergedResults,  \* the value mergeResults returned
    mergedAgain,    \* mergeResults applied to mergedResults
    response        \* the response the handler returned

numberingVars == <<localStorage, currentYear, calls>>

extractionVars == <<parsedText, regexResults, aiResults, merged, mergePc>>

routeVars == <<request, geminiApiKey, routePc, aiCallCount, generation, timer,
               race, finalResults, extractionMethod, aiError, mergedResults,
               mergedAgain, response>>

vars == <<localStorage, currentYear, calls, roundTrip, parserCall,
          parsedText, regexResults, aiResults, merged, mergePc,
          request, geminiApiKey, routePc, aiCallCount, generation, timer,
          race, finalResults, extractionMethod, aiError, mergedResults,
          mergedAgain, response>>

-----------------------------------------------------------------------------
(* Bounds of the model *)

\* The first calendar year the model's clock can show.
FirstYear == 2023

\* How many times the year can change.
YearSpan == 2

\* How many generateNext() calls one behaviour makes.
MaxCalls == 4

\* The largest sequence number given to formatInvoiceNumber directly.
MaxSequence == 1001

Years == FirstYear..(FirstYear + YearSpan)

-----------------------------------------------------------------------------
(* Strings and numbers *)

Digits == <<"0", "1", "2", "3", "4", "5", "6", "7", "8", "9">>

\* The regex class \d
IsDigit(c) == \E i \in 1..10 : Digits[i] = c

DigitValue(c) == (CHOOSE i \in 1..10 : Digits[i] = c) - 1

\* Number.prototype.toString() of a non-negative integer
RECURSIVE NumberToString(_)
NumberToString(n) ==
    IF n < 10 THEN <<Digits[n + 1]>>
    ELSE NumberToString(n \div 10) \o <<Digits[(n % 10) + 1]>>

\* String.prototype.padStart(targetLength, padString) for a one-character pad
RECURSIVE padStart(_, _, _)
padStart(s, targetLength, c) ==
    IF Len(s) >= targetLength THEN s ELSE padStart(<<c>> \o s, targetLength, c)

\* parseInt(s, 10) of a string of digits
RECURSIVE parseInt(_)
parseInt(s) ==
    IF Len(s) = 0 THEN 0
    ELSE parseInt(SubSeq(s, 1, Len(s) - 1)) * 10 + DigitValue(s[Len(s)])

Str_INV == <<"I", "N", "V", "-">>

None == [def |-> FALSE, val |-> <<>>]

Some(v) == [def |-> TRUE, val |-> v]

-----------------------------------------------------------------------------
(* Partial<InvoiceData>.  Every key is present in the record; a key the    *)
(* JavaScript object lacks has def = FALSE.  Money is counted in           *)
(* thousandths of the currency unit, so that rounding to two decimals      *)
(* (toFixed(2)) does something; a tax rate is a whole percentage.  A text  *)
(* field is a TLA+ string.                                                 *)

NoNumber == [def |-> FALSE, val |-> 0]

Num(n) == [def |-> TRUE, val |-> n]

NoText == [def |-> FALSE, val |-> ""]

Text(t) == [def |-> TRUE, val |-> t]

NoItems == [def |-> FALSE, val |-> <<>>]

Items(list) == [def |-> TRUE, val |-> list]

\* Partial<PaymentInfo> with no key
EmptyPaymentInfo ==
    [upiId |-> NoText, bankName |-> NoText, accountNumber |-> NoText,
     ifscCode |-> NoText, accountHolderName |-> NoText]

NoPaymentInfo == [def |-> FALSE, val |-> EmptyPaymentInfo]

\* The object {}
EmptyPartial ==
    [clientName |-> NoText, clientCompany |-> NoText, clientEmail |-> NoText,
     clientPhone |-> NoText, clientAddress |-> NoText,
     invoiceDate |-> NoText, dueDate |-> NoText, currency |-> NoText,
     notes |-> NoText, items |-> NoItems,
     subtotal |-> NoNumber, taxRate |-> NoNumber, taxAmount |-> NoNumber,
     total |-> NoNumber, paymentInfo |-> NoPaymentInfo]

\* JavaScript truthiness of an optional number and of an optional string
TruthyNumber(o) == o.def /\ o.val # 0

TruthyText(o) == o.def /\ o.val # ""

\* items.reduce((sum, item) => sum + item.amount, 0)
RECURSIVE SumAmounts(_)
SumAmounts(list) ==
    IF Len(list) = 0 THEN 0
    ELSE SumAmounts(SubSeq(list, 1, Len(list) - 1)) + list[Len(list)].amount

\* parseFloat(((subtotal * taxRate) / 100).toFixed(2)), in thousandths
TaxOf(subtotal, taxRate) == ((subtotal * taxRate + 500) \div 1000) * 10

\* parseFloat(x.toFixed(2)) of a non-negative amount x, in thousandths
Round2(x) == ((x + 5) \div 10) * 10

\* No parser has run
NoParsedText ==
    [def |-> FALSE,
     structured |-> [clientName |-> NoText, clientCompany |-> NoText,
                     clientEmail |-> NoText, clientPhone |-> NoText,
                     items |-> <<>>, dueDate |-> NoText],
     lineItems |-> <<>>,
     currencyFromAmount |-> NoText,
     amount |-> [amount |-> NoNumber, currency |-> NoText],
     structuredDueDates |-> <<>>,
     dates |-> <<>>,
     paymentInfo |-> EmptyPaymentInfo,
     gstNumber |-> NoText,
     taxRate |-> NoNumber,
     email |-> NoText, phone |-> NoText, clientName |-> NoText]

\* No request body has been read
NoRequest == [via |-> "none", body |-> "none", useAI |-> FALSE]

\* The handler's aiError while it is null
NoAiError == [def |-> FALSE, errorCode |-> "", reason |-> ""]

\* No response has been returned
NoResponse ==
    [sent |-> FALSE, status |-> 0, success |-> FALSE, hasData |-> FALSE,
     data |-> EmptyPartial, errorCode |-> "", missingFields |-> {},
     aiStatus |-> FALSE, extractionMethod |-> ""]

\* No request is being handled and mergeResults has not been called
RouteIdle ==
    /\ request = NoRequest
    /\ geminiApiKey = TRUE
    /\ routePc = "idle"
    /\ aiCallCount = 0
    /\ generation = "none"
    /\ timer = "none"
    /\ race = "none"
    /\ finalResults = EmptyPartial
    /\ extractionMethod = "regex"
    /\ aiError = NoAiError
    /\ mergedResults = EmptyPartial
    /\ mergedAgain = EmptyPartial
    /\ response = NoResponse

ExtractionIdle ==
    /\ parsedText = NoParsedText
    /\ regexResults = EmptyPartial
    /\ aiResults = EmptyPartial
    /\ merged = EmptyPartial
    /\ mergePc = "idle"
    /\ RouteIdle

-----------------------------------------------------------------------------
(* NumberingService *)

\* const INVOICE_NUMBER_PATTERN = /^INV-(\d{4})-(\d{3})$/
INVOICE_NUMBER_PATTERN(s) ==
    /\ Len(s) = 12
    /\ SubSeq(s, 1, 4) = Str_INV
    /\ \A i \in 5..8 : IsDigit(s[i])
    /\ s[9] = "-"
    /\ \A i \in 10..12 : IsDigit(s[i])

\* formatInvoiceNumber(year, sequence)
formatInvoiceNumber(year, sequence) ==
    Str_INV \o NumberToString(year) \o <<"-">>
            \o padStart(NumberToString(sequence), 3, "0")

\* parseInvoiceNumber(invoiceNumber): the parsed pair, or the thrown Error
parseInvoiceNumber(invoiceNumber) ==
    IF ~INVOICE_NUMBER_PATTERN(invoiceNumber)
    THEN [threw |-> TRUE, year |-> 0, sequence |-> 0]
    ELSE [threw    |-> FALSE,
          year     |-> parseInt(SubSeq(invoiceNumber, 5, 8)),
          sequence |-> parseInt(SubSeq(invoiceNumber, 10, 12))]

-----------------------------------------------------------------------------
(* StorageService: the two methods the numbering service uses.  Each       *)
(* localStorage access may throw; getItemThrows and setItemThrows are the  *)
(* environment's choice for one call.                                      *)

\* getLastInvoiceNumber(): an exception of getItem is caught and null returned
getLastInvoiceNumber(slot, getItemThrows) ==
    IF getItemThrows THEN None ELSE slot

\* A mutant of saveLastInvoiceNumber: an exception of setItem is swallowed
saveLastInvoiceNumberSwallows(slot, number, setItemThrows) ==
    IF setItemThrows THEN [threw |-> FALSE, slot |-> slot]
    ELSE [threw |-> FALSE, slot |-> Some(number)]

\* saveLastInvoiceNumber(number): an exception of setItem is rethrown
saveLastInvoiceNumber(slot, number, setItemThrows) ==
    IF setItemThrows THEN [threw |-> TRUE, slot |-> slot]
    ELSE [threw |-> FALSE, slot |-> Some(number)]

\* The JavaScript test !lastNumber on a string | null: null and "" are falsy
NotLastNumber(lastNumber) == ~lastNumber.def \/ lastNumber.val = <<>>

Returned(newNumber, slot) ==
    [kind |-> "returned", value |-> newNumber, error |-> "", slot |-> slot]

Threw(error, slot) ==
    [kind |-> "threw", value |-> <<>>, error |-> error, slot |-> slot]

\* The three places of generateNext that save the new number and return it
SaveAndReturn(slot, newNumber, setItemThrows) ==
    LET saved == saveLastInvoiceNumber(slot, newNumber, setItemThrows)
    IN  IF saved.threw THEN Threw("storage", saved.slot)
        ELSE Returned(newNumber, saved.slot)

\* generateNext(): its outcome and the slot it leaves
generateNext(slot, year, getItemThrows, setItemThrows) ==
    LET lastNumber == getLastInvoiceNumber(slot, getItemThrows)
    IN  IF NotLastNumber(lastNumber)
        THEN SaveAndReturn(slot, formatInvoiceNumber(year, 1), setItemThrows)
        ELSE LET parsed == parseInvoiceNumber(lastNumber.val)
             IN  IF parsed.threw THEN Threw("format", slot)
                 ELSE IF parsed.year < year
                 THEN SaveAndReturn(slot, formatInvoiceNumber(year, 1),
                                    setItemThrows)
                 ELSE SaveAndReturn(slot,
                         formatInvoiceNumber(year, parsed.sequence + 1),
                         setItemThrows)

-----------------------------------------------------------------------------
(* The numbering state machine *)

Str_INVALID == <<"I", "N", "V", "A", "L", "I", "D">>

\* Sequence numbers of the numbers found persisted when a session starts
PersistedSequences == {1, 5, 998, 999, 1000, 1234}

\* What the slot may hold when a session starts: nothing, a number written by
\* an earlier session, or a damaged string.
PersistedSlots ==
    {None}
    \cup {Some(formatInvoiceNumber(y, s)) : y \in Years, s \in PersistedSequences}
    \cup {Some(<<>>), Some(Str_INVALID),
          Some(Str_INV \o NumberToString(FirstYear)),
          Some(SubSeq(formatInvoiceNumber(FirstYear, 1), 1, 11) \o <<"x">>)}

\* No parser has been called
NoParserCall == [fn |-> "none", input |-> <<>>, output |-> <<>>]

RoundTripIdle == [pc |-> "idle", year |-> 0, sequence |-> 0,
                  formatted |-> <<>>,
                  parsed |-> [threw |-> FALSE, year |-> 0, sequence |-> 0]]

NumberingInit ==
    /\ localStorage \in PersistedSlots
    /\ currentYear \in Years
    /\ calls = <<>>
    /\ roundTrip = RoundTripIdle
    /\ parserCall = NoParserCall
    /\ ExtractionIdle

\* One generateNext() call, from its read of the slot to its return or throw
GenerateNext ==
    /\ Len(calls) < MaxCalls
    /\ \E getItemThrows \in BOOLEAN, setItemThrows \in BOOLEAN :
         LET out == generateNext(localStorage, currentYear,
                                 getItemThrows, setItemThrows)
         IN  /\ localStorage' = out.slot
             /\ calls' = Append(calls,
                    [year          |-> currentYear,
                     before        |-> localStorage,
                     getItemThrows |-> getItemThrows,
                     setItemThrows |-> setItemThrows,
                     kind          |-> out.kind,
                     value         |-> out.value,
                     error         |-> out.error,
                     after         |-> out.slot])
    /\ UNCHANGED <<currentYear, roundTrip, parserCall, extractionVars,
                 routeVars>>

\* The calendar year changes between two calls
NewYear ==
    /\ currentYear < FirstYear + YearSpan
    /\ currentYear' = currentYear + 1
    /\ UNCHANGED <<localStorage, calls, roundTrip, parserCall, extractionVars,
                 routeVars>>

NumberingNext == GenerateNext \/ NewYear

NumberingSpec == NumberingInit /\ [][NumberingNext]_vars

-----------------------------------------------------------------------------
(* formatInvoiceNumber followed by parseInvoiceNumber *)

RoundTripInit ==
    /\ localStorage = None
    /\ currentYear = FirstYear
    /\ calls = <<>>
    /\ \E y \in Years, s \in 1..MaxSequence :
         roundTrip = [RoundTripIdle EXCEPT !.pc = "start", !.year = y,
                                           !.sequence = s]
    /\ parserCall = NoParserCall
    /\ ExtractionIdle

Format ==
    /\ roundTrip.pc = "start"
    /\ roundTrip' = [roundTrip EXCEPT
           !.pc = "formatted",
           !.formatted = formatInvoiceNumber(roundTrip.year, roundTrip.sequence)]
    /\ UNCHANGED <<numberingVars, parserCall, extractionVars,
                 routeVars>>

Parse ==
    /\ roundTrip.pc = "formatted"
    /\ roundTrip' = [roundTrip EXCEPT
           !.pc = "parsed",
           !.parsed = parseInvoiceNumber(roundTrip.formatted)]
    /\ UNCHANGED <<numberingVars, parserCall, extractionVars,
                 routeVars>>

RoundTripNext == Format \/ Parse

RoundTripSpec == RoundTripInit /\ [][RoundTripNext]_vars

-----------------------------------------------------------------------------
(* Properties of the numbering service *)

\* The invoice-number text format of the interface: INV-YYYY-NNN, YYYY exactly
\* four digits, NNN at least three digits.
WellFormedNumber(s) ==
    /\ Len(s) >= 12
    /\ SubSeq(s, 1, 4) = Str_INV
    /\ \A i \in 5..8 : IsDigit(s[i])
    /\ s[9] = "-"
    /\ \A i \in 10..Len(s) : IsDigit(s[i])

YearOf(s) == parseInt(SubSeq(s, 5, 8))

SuffixOf(s) == parseInt(SubSeq(s, 10, Len(s)))

\* Neither localStorage access of the call threw
StorageWorked(call) == ~call.getItemThrows /\ ~call.setItemThrows

StartedAbsent ==
    IF calls = <<>> THEN ~localStorage.def ELSE ~calls[1].before.def

\* C1: in a run of generateNext() calls within one calendar year, each call
\* returns a number whose suffix is one more than the suffix the previous call
\* returned, also past suffix 999 (stated for the calls whose storage accesses
\* all worked).
C1_SequenceMonotonic ==
    \A i \in 1..(Len(calls) - 1) :
        ( /\ calls[i].kind = "returned"
          /\ calls[i + 1].year = calls[i].year
          /\ StorageWorked(calls[i + 1]) )
        => /\ calls[i + 1].kind = "returned"
           /\ SuffixOf(calls[i + 1].value) = SuffixOf(calls[i].value) + 1

\* C2: starting from absent history, with the year never decreasing, no two
\* generateNext() calls return the same invoice number.
C2_Unique ==
    StartedAbsent =>
        \A i \in 1..Len(calls), j \in 1..Len(calls) :
            (i < j /\ calls[i].kind = "returned" /\ calls[j].kind = "returned")
            => calls[i].value # calls[j].value

\* C3: generateNext() returns INV-<currentYear>-001 when the persisted number
\* is absent or of an earlier year, whatever its suffix, and
\* INV-<currentYear>-<seq+1> for every other well-formed persisted number
\* (stated for the calls whose storage accesses all worked).
C3_NextNumber ==
    \A i \in 1..Len(calls) :
        LET c == calls[i]
            b == c.before
        IN  StorageWorked(c) =>
              /\ (~b.def \/ (WellFormedNumber(b.val) /\ YearOf(b.val) < c.year))
                   => /\ c.kind = "returned"
                      /\ c.value = formatInvoiceNumber(c.year, 1)
              /\ (b.def /\ WellFormedNumber(b.val) /\ YearOf(b.val) >= c.year)
                   => /\ c.kind = "returned"
                      /\ c.value = formatInvoiceNumber(c.year, SuffixOf(b.val) + 1)

\* C4: for every four-digit year and every sequence >= 1, also >= 1000,
\* parseInvoiceNumber(formatInvoiceNumber(year, seq)) is {year, sequence: seq}.
C4_RoundTrip ==
    roundTrip.pc = "parsed" =>
        roundTrip.parsed = [threw    |-> FALSE,
                            year     |-> roundTrip.year,
                            sequence |-> roundTrip.sequence]

\* C5: when the persisted string is present and is no invoice number,
\* generateNext() throws and leaves the persisted string as it was (stated for
\* the calls whose read of the slot worked).
C5_MalformedRaises ==
    \A i \in 1..Len(calls) :
        LET c == calls[i]
        IN  (~c.getItemThrows /\ c.before.def /\ ~WellFormedNumber(c.before.val))
            => (c.kind = "threw" /\ c.after = c.before)

\* C6: after a generateNext() call that returns, the persisted string is the
\* returned string; when the storage write throws, generateNext() throws,
\* returns no number and leaves the slot as it was.
C6_PersistBeforeReturn ==
    \A i \in 1..Len(calls) :
        LET c == calls[i]
        IN  /\ c.kind = "returned" => c.after = Some(c.value)
            /\ c.setItemThrows => (c.kind = "threw" /\ c.after = c.before)
            /\ i = Len(calls) => localStorage = c.after

\* A call that returned and persisted its number, and a call whose write threw
C6_Witness ==
    /\ \E i \in 1..Len(calls) :
         calls[i].kind = "returned" /\ localStorage = Some(calls[i].value)
    /\ \E j \in 1..Len(calls) :
         calls[j].setItemThrows /\ calls[j].error = "storage"

-----------------------------------------------------------------------------
(* ExtractionEngine.extractWithRegex.  The regular expressions themselves  *)
(* are not modelled: p holds what each parser found in the text, and the   *)
(* operator is what extractWithRegex builds from those findings.           *)

\* parseFloat((p / q).toFixed(2)) of a non-negative quotient, in thousandths
Round2Div(p, q) == ((2 * p + 10 * q) \div (20 * q)) * 10

\* structuredData.items.map((item, index) => ({id, description, quantity: 1,
\* rate: item.amount, amount: item.amount}))
RECURSIVE MapStructuredItems(_)
MapStructuredItems(list) ==
    IF Len(list) = 0 THEN <<>>
    ELSE Append(MapStructuredItems(SubSeq(list, 1, Len(list) - 1)),
                [id          |-> "item-" \o ToString(Len(list)),
                 description |-> list[Len(list)].description,
                 quantity    |-> 1,
                 rate        |-> list[Len(list)].amount,
                 amount      |-> list[Len(list)].amount])

\* The client fields taken from the structured format
StructuredClient(e, p) ==
    LET sd == p.structured
    IN  [e EXCEPT
           !.clientName = IF TruthyText(sd.clientName) THEN sd.clientName ELSE @,
           !.clientCompany =
               IF TruthyText(sd.clientCompany) THEN sd.clientCompany ELSE @,
           !.clientEmail =
               IF TruthyText(sd.clientEmail) THEN sd.clientEmail ELSE @,
           !.clientPhone =
               IF TruthyText(sd.clientPhone) THEN sd.clientPhone ELSE @]

\* Structured items if there are any, else the line items found by the
\* sentence patterns, else one bare amount
RegexItems(e, p) ==
    IF Len(p.structured.items) > 0
    THEN [e EXCEPT
            !.items = Items(MapStructuredItems(p.structured.items)),
            !.total = Num(SumAmounts(p.structured.items)),
            !.subtotal = Num(SumAmounts(p.structured.items)),
            !.currency = IF TruthyText(p.currencyFromAmount)
                         THEN p.currencyFromAmount ELSE @]
    ELSE IF Len(p.lineItems) > 0
    THEN [e EXCEPT
            !.items = Items(p.lineItems),
            !.total = Num(SumAmounts(p.lineItems)),
            !.subtotal = Num(SumAmounts(p.lineItems)),
            !.currency = IF TruthyText(p.currencyFromAmount)
                         THEN p.currencyFromAmount ELSE @]
    ELSE [e EXCEPT
            !.total = IF p.amount.amount.def THEN p.amount.amount ELSE @,
            !.subtotal = IF p.amount.amount.def THEN p.amount.amount ELSE @,
            !.currency = IF TruthyText(p.amount.currency)
                         THEN p.amount.currency ELSE @]

\* The due date of the structured format, then the dates found in the text
RegexDates(e, p) ==
    LET e1 == IF TruthyText(p.structured.dueDate) /\ Len(p.structuredDueDates) > 0
              THEN [e EXCEPT !.dueDate = Text(p.structuredDueDates[1])]
              ELSE e
    IN  IF Len(p.dates) > 0
        THEN [e1 EXCEPT !.invoiceDate = Text(p.dates[1]),
                        !.dueDate = IF Len(p.dates) > 1
                                    THEN Text(p.dates[2]) ELSE @]
        ELSE e1

\* Object.keys(paymentInfo).length > 0
HasPaymentKey(info) == \E f \in DOMAIN info : info[f].def

RegexPaymentAndGst(e, p) ==
    LET e1 == IF HasPaymentKey(p.paymentInfo)
              THEN [e EXCEPT !.paymentInfo = [def |-> TRUE, val |-> p.paymentInfo]]
              ELSE e
    IN  IF TruthyText(p.gstNumber)
        THEN [e1 EXCEPT !.notes =
                 IF TruthyText(e1.notes)
                 THEN Text(e1.notes.val \o "\nGST: " \o p.gstNumber.val)
                 ELSE Text("GST: " \o p.gstNumber.val)]
        ELSE e1

\* The tax rate found in the text, and the amounts derived from it
RegexTax(e, p) ==
    IF ~p.taxRate.def THEN e
    ELSE IF TruthyNumber(e.subtotal) /\ e.subtotal.val > 0
    THEN LET taxAmount == TaxOf(e.subtotal.val, p.taxRate.val)
         IN  [e EXCEPT !.taxRate = p.taxRate,
                       !.taxAmount = Num(taxAmount),
                       !.total = Num(Round2(e.subtotal.val + taxAmount))]
    ELSE IF TruthyNumber(e.total) /\ e.total.val > 0
    THEN LET subtotal == Round2Div(e.total.val * 100, 100 + p.taxRate.val)
         IN  [e EXCEPT !.taxRate = p.taxRate,
                       !.subtotal = Num(subtotal),
                       !.taxAmount = Num(Round2(e.total.val - subtotal))]
    ELSE [e EXCEPT !.taxRate = p.taxRate]

RegexContact(e, p) ==
    [e EXCEPT
       !.clientEmail = IF TruthyText(p.email) THEN p.email ELSE @,
       !.clientPhone = IF TruthyText(p.phone) THEN p.phone ELSE @,
       !.clientName = IF TruthyText(p.clientName) THEN p.clientName ELSE @]

extractWithRegex(p) ==
    RegexContact(
      RegexTax(
        RegexPaymentAndGst(
          RegexDates(
            RegexItems(StructuredClient(EmptyPartial, p), p), p), p), p), p)

-----------------------------------------------------------------------------
(* ExtractionEngine.mergeExtractionResults *)

\* A mutant of SpreadPartial: { ...aiResults, ...regexResults }
SpreadPartialRegexLast(r, a) == [f \in DOMAIN r |-> IF r[f].def THEN r[f] ELSE a[f]]

\* { ...regexResults, ...aiResults }
SpreadPartial(r, a) == [f \in DOMAIN r |-> IF a[f].def THEN a[f] ELSE r[f]]

HasItems(x) == x.items.def /\ Len(x.items.val) > 0

\* A mutant of MergeItems: the regex items are preferred
MergeItemsRegexFirst(m, r, a) ==
    IF HasItems(r) THEN [m EXCEPT !.items = r.items]
    ELSE IF HasItems(a) THEN [m EXCEPT !.items = a.items]
    ELSE [m EXCEPT !.items = Items(<<>>)]

\* AI items if there are any, else regex items if there are any, else []
MergeItems(m, r, a) ==
    IF HasItems(a) THEN [m EXCEPT !.items = a.items]
    ELSE IF HasItems(r) THEN [m EXCEPT !.items = r.items]
    ELSE [m EXCEPT !.items = Items(<<>>)]

MergeDueDate(m, r, a) ==
    IF TruthyText(a.dueDate) THEN [m EXCEPT !.dueDate = a.dueDate]
    ELSE IF TruthyText(r.dueDate) /\ ~TruthyText(m.dueDate)
    THEN [m EXCEPT !.dueDate = r.dueDate]
    ELSE m

MergeTaxRate(m, r, a) ==
    IF a.taxRate.def THEN [m EXCEPT !.taxRate = a.taxRate]
    ELSE IF r.taxRate.def /\ ~TruthyNumber(m.taxRate)
    THEN [m EXCEPT !.taxRate = r.taxRate]
    ELSE m

MergeTaxAmount(m, r, a) ==
    IF a.taxAmount.def THEN [m EXCEPT !.taxAmount = a.taxAmount]
    ELSE IF r.taxAmount.def /\ ~TruthyNumber(m.taxAmount)
    THEN [m EXCEPT !.taxAmount = r.taxAmount]
    ELSE m

\* "Recalculate totals if items and tax rate are present"
RecalculateWithTax(m) ==
    IF HasItems(m) /\ TruthyNumber(m.taxRate) /\ m.taxRate.val > 0
    THEN LET subtotal == SumAmounts(m.items.val)
             taxAmount == IF ~TruthyNumber(m.taxAmount)
                          THEN Num(TaxOf(subtotal, m.taxRate.val))
                          ELSE m.taxAmount
         IN  [m EXCEPT !.subtotal = Num(subtotal),
                       !.taxAmount = taxAmount,
                       !.total = Num(Round2(subtotal + taxAmount.val))]
    ELSE m

\* A mutant of MergePaymentInfo: the payment details are left as the spread of
\* the two results made them, the AI's object in place of the regex one
MergePaymentInfoWholeObject(m, r, a) == m

\* { ...regexResults.paymentInfo, ...aiResults.paymentInfo }
MergePaymentInfo(m, r, a) ==
    IF r.paymentInfo.def \/ a.paymentInfo.def
    THEN [m EXCEPT !.paymentInfo =
            [def |-> TRUE,
             val |-> [f \in DOMAIN EmptyPaymentInfo |->
                        IF a.paymentInfo.def /\ a.paymentInfo.val[f].def
                        THEN a.paymentInfo.val[f]
                        ELSE IF r.paymentInfo.def THEN r.paymentInfo.val[f]
                        ELSE NoText]]]
    ELSE m

\* A mutant of RecalculateTotals: it keeps the subtotal a source supplied
RecalculateTotalsKeepsSubtotal(m, a) ==
    IF HasItems(m)
    THEN LET subtotal == IF m.subtotal.def THEN m.subtotal.val
                         ELSE SumAmounts(m.items.val)
         IN  [m EXCEPT !.subtotal = Num(subtotal),
                       !.total = IF a.total.def THEN a.total
                                 ELSE Num(subtotal +
                                          (IF TruthyNumber(m.taxAmount)
                                           THEN m.taxAmount.val ELSE 0))]
    ELSE IF ~m.total.def /\ m.subtotal.def
    THEN [m EXCEPT !.total = m.subtotal]
    ELSE m

\* "Recalculate totals if items are present"
RecalculateTotals(m, a) ==
    IF HasItems(m)
    THEN LET subtotal == SumAmounts(m.items.val)
         IN  [m EXCEPT !.subtotal = Num(subtotal),
                       !.total = IF a.total.def THEN a.total
                                 ELSE Num(subtotal +
                                          (IF TruthyNumber(m.taxAmount)
                                           THEN m.taxAmount.val ELSE 0))]
    ELSE IF ~m.total.def /\ m.subtotal.def
    THEN [m EXCEPT !.total = m.subtotal]
    ELSE m

\* A mutant of FillDefaults: a default is given only to a field that is
\* undefined
FillDefaultsWhenUndefined(m, today) ==
    [m EXCEPT !.currency = IF ~m.currency.def THEN Text("INR") ELSE @,
              !.invoiceDate = IF ~m.invoiceDate.def THEN Text(today) ELSE @,
              !.items = IF ~m.items.def THEN Items(<<>>) ELSE @]

\* The defaults for currency, invoiceDate and items
FillDefaults(m, today) ==
    [m EXCEPT !.currency = IF ~TruthyText(m.currency) THEN Text("INR") ELSE @,
              !.invoiceDate = IF ~TruthyText(m.invoiceDate) THEN Text(today) ELSE @,
              !.items = IF ~m.items.def THEN Items(<<>>) ELSE @]

mergeExtractionResults(r, a, today) ==
    FillDefaults(
      RecalculateTotals(
        MergePaymentInfo(
          RecalculateWithTax(
            MergeTaxAmount(
              MergeTaxRate(
                MergeDueDate(
                  MergeItems(SpreadPartial(r, a), r, a), r, a), r, a), r, a)),
          r, a),
        a),
      today)

-----------------------------------------------------------------------------
(* One extraction: the regex result, the AI result, their merge *)

\* The longest list of line items a source supplies.
MaxItems == 3

\* new Date().toISOString().split('T')[0]
Today == "2025-03-01"

\* The items of the "Items:" block of the structured format
RECURSIVE StructuredItemsUpTo(_)
StructuredItemsUpTo(n) ==
    IF n = 0 THEN <<>>
    ELSE Append(StructuredItemsUpTo(n - 1),
                [description |-> "Template item " \o ToString(n),
                 amount      |-> 3200000 + 1110 * n])

\* The items found by extractLineItems
RECURSIVE LineItemsUpTo(_)
LineItemsUpTo(n) ==
    IF n = 0 THEN <<>>
    ELSE Append(LineItemsUpTo(n - 1),
                [id          |-> "item-" \o ToString(n),
                 description |-> "Heuristic item " \o ToString(n),
                 quantity    |-> 1,
                 rate        |-> 4500000 + 70 * n,
                 amount      |-> 4500000 + 70 * n])

\* The items of an AI result
RECURSIVE AiItemsUpTo(_)
AiItemsUpTo(n) ==
    IF n = 0 THEN <<>>
    ELSE Append(AiItemsUpTo(n - 1),
                [id          |-> "item-" \o ToString(n),
                 description |-> "AI item " \o ToString(n),
                 quantity    |-> 2,
                 rate        |-> 1250000 + 335 * n,
                 amount      |-> 2 * (1250000 + 335 * n)])

\* What the parsers besides the item, amount and tax parsers found: nothing,
\* or a text in the structured format with dates, payment details and a GST
\* number
BlankText == [NoParsedText EXCEPT !.def = TRUE]

FullText ==
    [BlankText EXCEPT
       !.structured.clientName = Text("Ankit Sharma"),
       !.structured.clientCompany = Text("Tech Solutions"),
       !.structured.clientEmail = Text("ankit@example.com"),
       !.structured.clientPhone = Text("9876543210"),
       !.structured.dueDate = Text("12th March 2025"),
       !.structuredDueDates = <<"2025-03-12">>,
       !.dates = <<"2025-03-12", "2025-04-15">>,
       !.paymentInfo.upiId = Text("merchant@paytm"),
       !.paymentInfo.ifscCode = Text("HDFC0001234"),
       !.paymentInfo.bankName = Text("HDFC Bank"),
       !.gstNumber = Text("22AAAAA0000A1Z5"),
       !.email = Text("ankit@example.com"),
       !.phone = Text("9876543210"),
       !.clientName = Text("Ankit Sharma")]

ParsedTexts ==
    { [base EXCEPT
         !.structured.items = StructuredItemsUpTo(n),
         !.lineItems = LineItemsUpTo(k),
         !.amount = [amount   |-> amount,
                     currency |-> IF amount.def THEN Text("INR") ELSE NoText],
         !.currencyFromAmount =
             IF n > 0 \/ k > 0 \/ amount.def THEN Text("INR") ELSE NoText,
         !.taxRate = taxRate] :
      base \in {BlankText, FullText},
      n \in 0..MaxItems, k \in 0..MaxItems,
      amount \in {NoNumber, Num(5000000)},
      taxRate \in {NoNumber, Num(0), Num(18)} }

SubtotalChoices == {NoNumber, Num(4500070), Num(1000000)}

TaxRateChoices == {NoNumber, Num(0), Num(18)}

TaxAmountChoices == {NoNumber, Num(0), Num(810010), Num(12345)}

TotalChoices == {NoNumber, Num(5310080), Num(1000000)}

\* The partial results a caller hands to mergeExtractionResults directly
PartialResults(itemChoices) ==
    { [EmptyPartial EXCEPT !.items = items, !.subtotal = subtotal,
                           !.taxRate = taxRate, !.taxAmount = taxAmount,
                           !.total = total] :
      items \in itemChoices, subtotal \in SubtotalChoices,
      taxRate \in TaxRateChoices, taxAmount \in TaxAmountChoices,
      total \in TotalChoices }

RegexResults ==
    PartialResults({NoItems} \cup {Items(LineItemsUpTo(n)) : n \in 0..MaxItems})

AiResults ==
    PartialResults({NoItems} \cup {Items(AiItemsUpTo(n)) : n \in 0..MaxItems})

MergeInit ==
    /\ localStorage = None
    /\ currentYear = FirstYear
    /\ calls = <<>>
    /\ roundTrip = RoundTripIdle
    /\ parserCall = NoParserCall
    /\ ExtractionIdle

\* engine.extractWithRegex(body.text)
ExtractWithRegex ==
    /\ mergePc = "idle"
    /\ \E p \in ParsedTexts :
         /\ parsedText' = p
         /\ regexResults' = extractWithRegex(p)
    /\ mergePc' = "regex"
    /\ UNCHANGED <<numberingVars, roundTrip, parserCall, aiResults, merged,
                 routeVars>>

\* A caller that has a regex result of its own
RegexResultsGiven ==
    /\ mergePc = "idle"
    /\ regexResults' \in RegexResults
    /\ mergePc' = "regex"
    /\ UNCHANGED <<numberingVars, roundTrip, parserCall, parsedText, aiResults, merged,
                 routeVars>>

\* engine.mergeExtractionResults(regexResults, aiResults)
MergeExtractionResults ==
    /\ mergePc = "regex"
    /\ \E a \in AiResults :
         /\ aiResults' = a
         /\ merged' = mergeExtractionResults(regexResults, a, Today)
    /\ mergePc' = "merged"
    /\ UNCHANGED <<numberingVars, roundTrip, parserCall, parsedText, regexResults,
                 routeVars>>

MergeNext == ExtractWithRegex \/ RegexResultsGiven \/ MergeExtractionResults

MergeSpec == MergeInit /\ [][MergeNext]_vars

-----------------------------------------------------------------------------
(* Properties of mergeExtractionResults *)

\* The sum of the amounts of a list of items, counted from its head
RECURSIVE AmountTotal(_)
AmountTotal(list) ==
    IF list = <<>> THEN 0 ELSE Head(list).amount + AmountTotal(Tail(list))

\* C7: whenever the winning items array is non-empty, the output's total is
\* the output's subtotal plus the output's taxAmount (0 when absent), also
\* when the AI result carries a total of its own.
C7_TotalIsSubtotalPlusTax ==
    (mergePc = "merged" /\ HasItems(merged))
    => /\ merged.total.def
       /\ merged.subtotal.def
       /\ merged.total.val =
            merged.subtotal.val +
            (IF merged.taxAmount.def THEN merged.taxAmount.val ELSE 0)

\* C8: whenever the winning items array is non-empty, the output's subtotal is
\* the sum of the amounts of the output's items, whatever subtotal either
\* source supplied.
C8_SubtotalIsSumOfItems ==
    (mergePc = "merged" /\ HasItems(merged))
    => merged.subtotal = Num(AmountTotal(merged.items.val))

\* A merge with items in which both sources supplied another subtotal
C8_Witness ==
    /\ mergePc = "merged"
    /\ HasItems(merged)
    /\ regexResults.subtotal.def
    /\ aiResults.subtotal.def
    /\ regexResults.subtotal.val # AmountTotal(merged.items.val)
    /\ aiResults.subtotal.val # AmountTotal(merged.items.val)
    /\ merged.subtotal.val = AmountTotal(merged.items.val)

\* C9: whenever the output's taxRate is in (0, 100], the output's taxAmount is
\* the output's subtotal * taxRate / 100 rounded to two decimals, also when a
\* source supplied a taxAmount computed from another subtotal (stated for the
\* outputs with items, whose subtotal the merge computes).
C9_TaxAmountFromSubtotal ==
    ( /\ mergePc = "merged"
      /\ HasItems(merged)
      /\ merged.taxRate.def
      /\ merged.taxRate.val > 0
      /\ merged.taxRate.val <= 100 )
    => /\ merged.subtotal.def
       /\ merged.taxAmount.def
       /\ merged.taxAmount.val =
            ((merged.subtotal.val * merged.taxRate.val + 500) \div 1000) * 10

\* The same items: as many, with the same descriptions and amounts
SameItems(items, list) ==
    /\ items.def
    /\ Len(items.val) = Len(list)
    /\ \A i \in 1..Len(list) :
         /\ items.val[i].description = list[i].description
         /\ items.val[i].amount = list[i].amount

\* C10: the merged items are the AI items when the AI result has any, else
\* the regex items when the regex result has any, else the empty array; and
\* the regex items are the items of the Items: block when it gave any, else
\* the heuristic line items; no chosen array is shortened.
C10_ItemPrecedence ==
    /\ mergePc = "merged" =>
         IF aiResults.items.def /\ aiResults.items.val # <<>>
         THEN merged.items = aiResults.items
         ELSE IF regexResults.items.def /\ regexResults.items.val # <<>>
         THEN merged.items = regexResults.items
         ELSE merged.items = Items(<<>>)
    /\ parsedText.def =>
         IF parsedText.structured.items # <<>>
         THEN SameItems(regexResults.items, parsedText.structured.items)
         ELSE IF parsedText.lineItems # <<>>
         THEN regexResults.items = Items(parsedText.lineItems)
         ELSE ~regexResults.items.def

\* A merge without AI items, of a text whose Items: block and whose sentences
\* both gave items: all the items of the Items: block are in the output
C10_Witness ==
    /\ mergePc = "merged"
    /\ parsedText.def
    /\ ~HasItems(aiResults)
    /\ Len(parsedText.structured.items) = MaxItems
    /\ Len(parsedText.lineItems) = 1
    /\ SameItems(merged.items, parsedText.structured.items)

-----------------------------------------------------------------------------
(* ExtractionEngine.mergeResults *)

Abs(n) == IF n < 0 THEN -n ELSE n

\* A mutant of MergeResultsTotals: the total is always computed anew from the
\* subtotal the caller supplied
MergeResultsTotalsFromInput(m) ==
    IF Len(m.items.val) > 0
    THEN LET taxAmount == IF m.taxRate.def /\ m.taxRate.val > 0
                          THEN Num(TaxOf(m.subtotal.val, m.taxRate.val))
                          ELSE m.taxAmount
         IN  [m EXCEPT !.subtotal = Num(SumAmounts(m.items.val)),
                       !.taxAmount = taxAmount,
                       !.total = Num(m.subtotal.val +
                                     (IF TruthyNumber(taxAmount)
                                      THEN taxAmount.val ELSE 0))]
    ELSE m

\* "Ensure totals are calculated if items exist": a subtotal and a total
\* within 0.01 of the calculated ones are kept
MergeResultsTotals(m) ==
    IF Len(m.items.val) > 0
    THEN LET calculatedSubtotal == SumAmounts(m.items.val)
             subtotal ==
                 IF ~TruthyNumber(m.subtotal)
                    \/ Abs(m.subtotal.val - calculatedSubtotal) > 10
                 THEN calculatedSubtotal ELSE m.subtotal.val
             taxAmount == IF m.taxRate.def /\ m.taxRate.val > 0
                          THEN Num(TaxOf(subtotal, m.taxRate.val))
                          ELSE m.taxAmount
             withTax == subtotal + (IF TruthyNumber(taxAmount)
                                    THEN taxAmount.val ELSE 0)
             total == IF ~TruthyNumber(m.total)
                         \/ (subtotal # 0 /\ Abs(m.total.val - withTax) > 10)
                      THEN withTax ELSE m.total.val
         IN  [m EXCEPT !.subtotal = Num(subtotal),
                       !.taxAmount = taxAmount,
                       !.total = Num(total)]
    ELSE m

mergeResults(extracted, today) ==
    MergeResultsTotals(FillDefaults(extracted, today))

-----------------------------------------------------------------------------
(* Reconciliation of the text fields, the dates and the payment details:   *)
(* mergeExtractionResults on results that differ in those fields, and      *)
(* mergeResults on its own.                                                *)

\* How a source holds a text field: not at all, as the empty string (what
\* String(x).trim() makes of a blank answer), or with a value
FieldModes == {"absent", "empty", "value"}

TextInMode(mode, value) ==
    IF mode = "absent" THEN NoText
    ELSE IF mode = "empty" THEN Text("")
    ELSE Text(value)

\* The payment details a source tagged who ("regex" or "AI") holds
PaymentInfoChoices(who) ==
    LET P(fields) ==
            [def |-> TRUE,
             val |-> [f \in DOMAIN EmptyPaymentInfo |->
                        IF f \in fields THEN Text(who \o " " \o f) ELSE NoText]]
    IN  { NoPaymentInfo,
          P({}),
          P({"upiId", "ifscCode"}),
          P({"bankName", "accountNumber"}),
          P({"upiId", "bankName", "accountHolderName"}),
          P(DOMAIN EmptyPaymentInfo) }

\* The dates a source holds: none, a due date only, both, or blank answers
DateChoices(who) ==
    { [invoiceDate |-> NoText, dueDate |-> NoText],
      [invoiceDate |-> NoText, dueDate |-> Text(who \o " 2025-03-20")],
      [invoiceDate |-> Text(who \o " 2025-02-10"),
       dueDate |-> Text(who \o " 2025-03-20")],
      [invoiceDate |-> Text(""), dueDate |-> Text("")] }

\* The tax rate and the items a source holds
RateAndItemsChoices(itemsOf) ==
    { [taxRate |-> NoNumber, items |-> NoItems],
      [taxRate |-> Num(0), items |-> Items(<<>>)],
      [taxRate |-> Num(18), items |-> Items(itemsOf)],
      [taxRate |-> NoNumber, items |-> Items(itemsOf)] }

\* The partial results of one source.  The six client and notes fields are
\* held in the same mode.
FieldResults(who, itemsOf) ==
    { [EmptyPartial EXCEPT
         !.clientName = TextInMode(client, who \o " name"),
         !.clientCompany = TextInMode(client, who \o " company"),
         !.clientEmail = TextInMode(client, who \o " email"),
         !.clientPhone = TextInMode(client, who \o " phone"),
         !.clientAddress = TextInMode(client, who \o " address"),
         !.notes = TextInMode(client, who \o " notes"),
         !.currency = TextInMode(currency, IF who = "AI" THEN "USD" ELSE "EUR"),
         !.invoiceDate = dates.invoiceDate,
         !.dueDate = dates.dueDate,
         !.taxRate = rateAndItems.taxRate,
         !.items = rateAndItems.items,
         !.paymentInfo = paymentInfo] :
      client \in FieldModes, currency \in FieldModes,
      dates \in DateChoices(who),
      rateAndItems \in RateAndItemsChoices(itemsOf),
      paymentInfo \in PaymentInfoChoices(who) }

FieldRegexResults == FieldResults("regex", LineItemsUpTo(1))

FieldAiResults == FieldResults("AI", AiItemsUpTo(1))

\* Texts that differ in their dates: with or without a "Due Date:" line in
\* the structured format (a line extractDates can parse, or one it cannot),
\* and with up to three dates in the whole text.  A date of the "Due Date:"
\* line is one of the dates of the text.
DatedTexts ==
    LET T(dueLine, dueParsed, all) ==
            [BlankText EXCEPT !.structured.dueDate = dueLine,
                              !.structuredDueDates = dueParsed,
                              !.dates = all]
        line == Text("12th March 2025")
        due == "2025-03-12"
    IN  { T(NoText, <<>>, <<>>),
          T(NoText, <<>>, <<"2025-02-01">>),
          T(NoText, <<>>, <<"2025-02-01", "2025-02-28">>),
          T(line, <<due>>, <<due>>),
          T(line, <<due>>, <<"2025-02-01", due>>),
          T(line, <<due>>, <<due, "2025-02-01">>),
          T(line, <<due>>, <<"2025-02-01", "2025-02-28", due>>),
          T(Text("end of next month"), <<>>, <<>>),
          T(Text("end of next month"), <<>>, <<"2025-02-01", "2025-02-28">>) }

\* The arguments mergeResults is given on its own: items, amounts within and
\* beyond 0.01 of the calculated ones, a currency, an invoice date
ExtractedInputs ==
    { [EmptyPartial EXCEPT
         !.items = items, !.subtotal = subtotal, !.taxRate = taxRate,
         !.taxAmount = taxAmount, !.total = total,
         !.currency = TextInMode(currency, "EUR"),
         !.invoiceDate = TextInMode(invoiceDate, "2025-02-10")] :
      items \in {NoItems} \cup {Items(LineItemsUpTo(n)) : n \in 0..(MaxItems - 1)},
      subtotal \in {NoNumber, Num(0), Num(4500070), Num(4500075), Num(1000000)},
      taxRate \in TaxRateChoices,
      taxAmount \in {NoNumber, Num(810010), Num(12345)},
      total \in {NoNumber, Num(0), Num(5310080), Num(5310085), Num(1000000)},
      currency \in FieldModes, invoiceDate \in FieldModes }

\* A mutant of ArgumentsAfterMerge: the merge is made in place, as by
\* Object.assign(regexResults, aiResults)
ArgumentsAfterAssign(r, a) ==
    [regexResults |-> SpreadPartial(r, a), aiResults |-> a]

\* The arguments of mergeExtractionResults when it returns: the function
\* spreads them into the new object merged, and each of its assignments has
\* a property of merged as its target
ArgumentsAfterMerge(r, a) == [regexResults |-> r, aiResults |-> a]

\* The argument of mergeResults when it returns: likewise
ArgumentAfterMergeResults(extracted) == extracted

FieldInit ==
    /\ localStorage = None
    /\ currentYear = FirstYear
    /\ calls = <<>>
    /\ roundTrip = RoundTripIdle
    /\ parserCall = NoParserCall
    /\ ExtractionIdle

\* engine.extractWithRegex(text) on a text with dates
ExtractDatedText ==
    /\ mergePc = "idle"
    /\ \E p \in DatedTexts :
         /\ parsedText' = p
         /\ regexResults' = extractWithRegex(p)
    /\ mergePc' = "regex"
    /\ UNCHANGED <<numberingVars, roundTrip, parserCall, aiResults, merged, routeVars>>

\* A caller that has a regex result of its own
FieldResultsGiven ==
    /\ mergePc = "idle"
    /\ regexResults' \in FieldRegexResults
    /\ mergePc' = "regex"
    /\ UNCHANGED <<numberingVars, roundTrip, parserCall, parsedText, aiResults, merged,
                   routeVars>>

\* engine.mergeExtractionResults(regexResults, aiResults)
MergeFieldResults ==
    /\ mergePc = "regex"
    /\ \E a \in FieldAiResults :
         LET result == mergeExtractionResults(regexResults, a, Today)
             after == ArgumentsAfterMerge(regexResults, a)
         IN  /\ parserCall' = [fn |-> "mergeExtractionResults",
                                input |-> [regexResults |-> regexResults,
                                           aiResults |-> a],
                                output |-> result]
             /\ regexResults' = after.regexResults
             /\ aiResults' = after.aiResults
             /\ merged' = result
    /\ mergePc' = "merged"
    /\ UNCHANGED <<numberingVars, roundTrip, parsedText, routeVars>>

\* A caller that has extracted data of its own
ExtractedGiven ==
    /\ mergePc = "idle"
    /\ finalResults' \in ExtractedInputs \cup FieldRegexResults
    /\ mergePc' = "given"
    /\ UNCHANGED <<numberingVars, roundTrip, parserCall, parsedText, regexResults,
                   aiResults, merged, request, geminiApiKey, routePc,
                   aiCallCount, generation, timer, race, extractionMethod,
                   aiError, mergedResults, mergedAgain, response>>

\* engine.mergeResults(finalResults)
MergeResults ==
    /\ mergePc = "given"
    /\ mergedResults' = mergeResults(finalResults, Today)
    /\ finalResults' = ArgumentAfterMergeResults(finalResults)
    /\ parserCall' = [fn |-> "mergeResults", input |-> finalResults,
                        output |-> mergeResults(finalResults, Today)]
    /\ mergePc' = "filled"
    /\ UNCHANGED <<numberingVars, roundTrip, parsedText, regexResults,
                   aiResults, merged, request, geminiApiKey, routePc,
                   aiCallCount, generation, timer, race,
                   extractionMethod, aiError, mergedAgain, response>>

\* engine.mergeResults(mergedResults)
MergeResultsAgain ==
    /\ mergePc = "filled"
    /\ mergedAgain' = mergeResults(mergedResults, Today)
    /\ mergedResults' = ArgumentAfterMergeResults(mergedResults)
    /\ parserCall' = [fn |-> "mergeResults", input |-> mergedResults,
                        output |-> mergeResults(mergedResults, Today)]
    /\ mergePc' = "refilled"
    /\ UNCHANGED <<numberingVars, roundTrip, parsedText, regexResults,
                   aiResults, merged, request, geminiApiKey, routePc,
                   aiCallCount, generation, timer, race, finalResults,
                   extractionMethod, aiError, response>>

FieldNext ==
    \/ ExtractDatedText
    \/ FieldResultsGiven
    \/ MergeFieldResults
    \/ ExtractedGiven
    \/ MergeResults
    \/ MergeResultsAgain

FieldSpec == FieldInit /\ [][FieldNext]_vars

-----------------------------------------------------------------------------
(* Properties of the reconciliation of fields *)

PaymentFields == DOMAIN EmptyPaymentInfo

\* A source has the payment field f
HasPaymentField(x, f) == x.paymentInfo.def /\ x.paymentInfo.val[f].def

\* C11: after mergeExtractionResults, each of upiId, bankName, accountNumber,
\* ifscCode and accountHolderName holds the AI value when the AI result has
\* the field, and the regex value when only the regex result has it; a field
\* neither has is absent.
C11_PaymentInfoFieldByField ==
    mergePc = "merged" =>
        \A f \in PaymentFields :
            IF HasPaymentField(aiResults, f)
            THEN HasPaymentField(merged, f)
                 /\ merged.paymentInfo.val[f] = aiResults.paymentInfo.val[f]
            ELSE IF HasPaymentField(regexResults, f)
            THEN HasPaymentField(merged, f)
                 /\ merged.paymentInfo.val[f] = regexResults.paymentInfo.val[f]
            ELSE ~HasPaymentField(merged, f)

\* The AI result has a paymentInfo object with some field, lacks a field the
\* regex result has, and shares another field with it
C11_Witness ==
    /\ mergePc = "merged"
    /\ aiResults.paymentInfo.def
    /\ \E f, g \in PaymentFields :
         /\ HasPaymentField(regexResults, f) /\ ~HasPaymentField(aiResults, f)
         /\ HasPaymentField(regexResults, g) /\ HasPaymentField(aiResults, g)
         /\ merged.paymentInfo.val[f] = regexResults.paymentInfo.val[f]

\* The date parsed from the "Due Date:" line of the structured format
TemplateDueDate(p) ==
    IF TruthyText(p.structured.dueDate) /\ Len(p.structuredDueDates) > 0
    THEN Text(p.structuredDueDates[1])
    ELSE NoText

\* The second date detected in the text
HeuristicDueDate(p) == IF Len(p.dates) > 1 THEN Text(p.dates[2]) ELSE NoText

\* C12: the reconciled dueDate of a text is the AI's dueDate if it has one,
\* else the date parsed from the structured format's "Due Date:" line if
\* there is one, else the second date detected in the text.
C12_DueDatePrecedence ==
    (mergePc = "merged" /\ parsedText.def) =>
        IF TruthyText(aiResults.dueDate)
        THEN merged.dueDate = aiResults.dueDate
        ELSE IF TruthyText(TemplateDueDate(parsedText))
        THEN merged.dueDate = TemplateDueDate(parsedText)
        ELSE IF TruthyText(HeuristicDueDate(parsedText))
        THEN merged.dueDate = HeuristicDueDate(parsedText)
        ELSE ~TruthyText(merged.dueDate)

ScalarFields ==
    {"clientName", "clientCompany", "clientEmail", "clientPhone",
     "clientAddress", "currency", "notes", "taxRate"}

\* C13 as it is stated: after mergeExtractionResults each scalar field holds
\* the AI result's value when the AI result has one, and the regex result's
\* value otherwise.
C13_ScalarPrecedence ==
    mergePc = "merged" =>
        \A f \in ScalarFields :
            IF aiResults[f].def THEN merged[f] = aiResults[f]
            ELSE regexResults[f].def => merged[f] = regexResults[f]

\* C13, amended: after mergeExtractionResults each scalar field holds the AI
\* result's value when the AI result has one, and the regex result's value
\* otherwise; except that a currency that is the empty string is replaced by
\* the default "INR".
C13_ScalarPrecedenceAmended ==
    mergePc = "merged" =>
        \A f \in ScalarFields :
            LET winner == IF aiResults[f].def THEN aiResults[f]
                          ELSE regexResults[f]
            IN  IF f = "currency" /\ winner = Text("")
                THEN merged[f] = Text("INR")
                ELSE winner.def => merged[f] = winner

\* Both results name the client and the AI's name is in the output, while the
\* AI's blank currency gave way to the default although the regex result had
\* a currency
C13_Witness ==
    /\ mergePc = "merged"
    /\ TruthyText(aiResults.clientName)
    /\ TruthyText(regexResults.clientName)
    /\ regexResults.clientName # aiResults.clientName
    /\ merged.clientName = aiResults.clientName
    /\ ~aiResults.taxRate.def /\ regexResults.taxRate.def
    /\ merged.taxRate = regexResults.taxRate
    /\ aiResults.currency = Text("")
    /\ TruthyText(regexResults.currency)
    /\ merged.currency = Text("INR")

\* The value of a text field after { ...regexResults, ...aiResults }
SpreadText(f) == IF aiResults[f].def THEN aiResults[f] ELSE regexResults[f]

\* A text field of an output holds the supplied value if that is not empty,
\* and the default otherwise
KeptOrDefault(out, supplied, default) ==
    /\ TruthyText(out)
    /\ out = IF TruthyText(supplied) THEN supplied ELSE Text(default)

\* C14: every output of mergeExtractionResults and of mergeResults has a
\* non-empty currency ("INR" when no source supplied one), a non-empty
\* invoiceDate (today's date when none was supplied) and an items array
\* (empty when no source supplied items); a currency, an invoice date and
\* items that were supplied are kept, and mergeResults leaves the client
\* fields, the due date, the notes, the tax rate and the payment details as
\* they were.
C14_DefaultsFilled ==
    /\ mergePc = "merged" =>
         /\ KeptOrDefault(merged.currency, SpreadText("currency"), "INR")
         /\ KeptOrDefault(merged.invoiceDate, SpreadText("invoiceDate"), Today)
         /\ merged.items.def
         /\ merged.items.val = IF HasItems(aiResults) THEN aiResults.items.val
                               ELSE IF HasItems(regexResults)
                               THEN regexResults.items.val
                               ELSE <<>>
    /\ mergePc \in {"filled", "refilled"} =>
         /\ KeptOrDefault(mergedResults.currency, finalResults.currency, "INR")
         /\ KeptOrDefault(mergedResults.invoiceDate, finalResults.invoiceDate,
                          Today)
         /\ mergedResults.items.def
         /\ mergedResults.items.val = IF finalResults.items.def
                                      THEN finalResults.items.val ELSE <<>>
         /\ \A f \in {"clientName", "clientCompany", "clientEmail",
                     "clientPhone", "clientAddress", "dueDate", "notes",
                     "taxRate", "paymentInfo"} :
                mergedResults[f] = finalResults[f]

\* mergeResults was given data with a blank currency, no items and an invoice
\* date, and returned "INR", [] and that invoice date
C14_Witness ==
    /\ mergePc = "filled"
    /\ finalResults.currency = Text("")
    /\ ~finalResults.items.def
    /\ TruthyText(finalResults.invoiceDate)
    /\ mergedResults.currency = Text("INR")
    /\ mergedResults.items = Items(<<>>)
    /\ mergedResults.invoiceDate = finalResults.invoiceDate
    /\ TruthyText(finalResults.clientName)
    /\ mergedResults.clientName = finalResults.clientName

\* C15: with the clock held fixed, mergeResults(mergeResults(x)) equals
\* mergeResults(x) field for field.
C15_MergeResultsIdempotent ==
    mergePc = "refilled" => mergedAgain = mergedResults

\* mergeResults replaced a subtotal and a total that were off by more than
\* 0.01, computed the tax and filled the defaults; the second call changed
\* nothing
C15_Witness ==
    /\ mergePc = "refilled"
    /\ HasItems(finalResults)
    /\ TruthyNumber(finalResults.taxRate)
    /\ TruthyNumber(finalResults.subtotal)
    /\ finalResults.subtotal # mergedResults.subtotal
    /\ TruthyNumber(finalResults.total)
    /\ finalResults.total # mergedResults.total
    /\ ~TruthyText(finalResults.currency)
    /\ mergedAgain = mergedResults

-----------------------------------------------------------------------------
(* POST /api/extract and extractInvoiceDataWithFallback.  Each runs         *)
(* extractWithRegex, may await extractWithAI, and returns data with a       *)
(* method tag.  extractWithAI races model.generateContent against a 15 s    *)
(* timer; the handler is suspended while the race is pending, and the       *)
(* model's promise and the timer go on living after the race has settled.   *)

\* A mutant of MissingFields: data without items counts as complete
MissingFieldsButItems(x) ==
    (IF ~TruthyText(x.clientName) THEN {"clientName"} ELSE {})
    \cup (IF ~TruthyNumber(x.total) /\ ~TruthyNumber(x.subtotal)
          THEN {"amount"} ELSE {})

\* regexMissingFields and missingFields: the required fields x lacks
MissingFields(x) ==
    (IF ~TruthyText(x.clientName) THEN {"clientName"} ELSE {})
    \cup (IF ~TruthyNumber(x.total) /\ ~TruthyNumber(x.subtotal)
          THEN {"amount"} ELSE {})
    \cup (IF ~HasItems(x) THEN {"items"} ELSE {})

\* A mutant of ShouldUseAI: the AI is used only at the caller's request
ShouldUseAIOnRequestOnly(useAI, r) == useAI

\* const shouldUseAI = body.useAI === true || regexMissingFields.length > 0
ShouldUseAI(useAI, r) == useAI \/ MissingFields(r) # {}

\* A mutant of FinalResultsAfterFailure: the failure is noted in the data
FinalResultsNotingFailure(r, reason) == [r EXCEPT !.notes = Text(reason)]

\* "Keep regex results and continue": finalResults when extractWithAI threw
FinalResultsAfterFailure(r, reason) == r

\* A mutant of MethodAfterMerge: the tag tells whether the AI result held
\* anything
MethodByContribution(a) == IF a = EmptyPartial THEN "regex" ELSE "hybrid"

\* extractionMethod = 'hybrid', once extractWithAI has returned
MethodAfterMerge(a) == "hybrid"

\* A mutant of RaceSettles: the race goes by whatever promise settles last
RaceSettlesAgain(r) == TRUE

\* Promise.race settles with the first of its promises to settle, once
RaceSettles(r) == r = "pending"

\* The response of POST for merged results, an extraction method and aiError
RouteResponse(data, method, err) ==
    IF MissingFields(data) # {}
    THEN [sent |-> TRUE, status |-> 200, success |-> FALSE, hasData |-> TRUE,
          data |-> data, errorCode |-> "EXTRACTION_INCOMPLETE",
          missingFields |-> MissingFields(data),
          aiStatus |-> err.def, extractionMethod |-> method]
    ELSE [sent |-> TRUE, status |-> 200, success |-> TRUE, hasData |-> TRUE,
          data |-> data,
          errorCode |-> IF err.def THEN err.errorCode ELSE "",
          missingFields |-> {},
          aiStatus |-> FALSE, extractionMethod |-> method]

\* The response of POST that carries an error and no data
ErrorResponse(status, errorCode) ==
    [sent |-> TRUE, status |-> status, success |-> FALSE, hasData |-> FALSE,
     data |-> EmptyPartial, errorCode |-> errorCode, missingFields |-> {},
     aiStatus |-> FALSE, extractionMethod |-> "regex"]

\* What extractInvoiceDataWithFallback returns: { data, method }
FunctionReturn(data, method) ==
    [NoResponse EXCEPT !.sent = TRUE, !.hasData = TRUE, !.data = data,
                       !.extractionMethod = method]

\* What the AI call came to: it was not made, it threw, or it returned a
AiNotCalled == [kind |-> "none", reason |-> "", a |-> EmptyPartial]

AiThrew(reason) == [kind |-> "threw", reason |-> reason, a |-> EmptyPartial]

AiReturned(a) == [kind |-> "returned", reason |-> "", a |-> a]

\* The caller from the point where the AI call has come to the outcome o, or
\* was not made: the merge, the method tag, aiError, the defaults and what is
\* returned.  extractInvoiceDataWithFallback returns the merge of the two
\* results as it is; in every other case mergeResults has the last word.
Complete(via, r, o) ==
    LET returned == o.kind = "returned"
        err == IF o.kind = "threw"
               THEN [def |-> TRUE,
                     errorCode |-> IF via = "POST"
                                   THEN "AI_SERVICE_UNAVAILABLE" ELSE "",
                     reason |-> o.reason]
               ELSE NoAiError
        mergedByAi == mergeExtractionResults(r, o.a, Today)
        final == IF returned THEN mergedByAi
                 ELSE IF o.kind = "threw"
                 THEN FinalResultsAfterFailure(r, o.reason)
                 ELSE r
        method == IF returned THEN MethodAfterMerge(o.a) ELSE "regex"
        filled == mergeResults(final, Today)
    IN  /\ aiResults' = o.a
        /\ merged' = IF returned THEN mergedByAi ELSE merged
        /\ finalResults' = final
        /\ extractionMethod' = method
        /\ aiError' = err
        /\ mergedResults' = IF via = "POST" \/ ~returned
                            THEN filled ELSE mergedResults
        /\ response' = IF via = "POST"
                       THEN RouteResponse(filled, method, err)
                       ELSE FunctionReturn(IF returned THEN mergedByAi
                                           ELSE filled, method)
        /\ routePc' = "done"

\* await engine.extractWithAI(text): without an API key it throws at once;
\* otherwise the model call and the timer are started and the caller waits
CallExtractWithAI(via, r) ==
    /\ aiCallCount' = aiCallCount + 1
    /\ IF ~geminiApiKey
       THEN /\ Complete(via, r, AiThrew("GEMINI_API_KEY not configured"))
            /\ UNCHANGED <<generation, timer, race>>
       ELSE /\ generation' = "pending"
            /\ timer' = "armed"
            /\ race' = "pending"
            /\ routePc' = "awaitAI"
            /\ finalResults' = r
            /\ UNCHANGED <<aiResults, merged, extractionMethod, aiError,
                           mergedResults, response>>

-----------------------------------------------------------------------------
(* extractWithAI: the mapping of the items of the model's JSON answer.  A   *)
(* JSON value is a number, a string or missing.  Of a string that stands    *)
(* for a number the model keeps what parseFloat reads; of a text it keeps   *)
(* the text without the white space around it, and whether there is such    *)
(* white space.  Quantities are whole; rates and amounts are counted in     *)
(* thousandths.                                                             *)

JsonUndefined ==
    [type |-> "undefined", num |-> 0, nan |-> FALSE, core |-> "", padded |-> FALSE]

JsonNumber(n) == [JsonUndefined EXCEPT !.type = "number", !.num = n]

\* A string parseFloat reads as n
JsonNumericString(n) == [JsonUndefined EXCEPT !.type = "string", !.num = n]

\* A string of the text core, with white space around it if padded; parseFloat
\* reads NaN from it
JsonText(core, padded) ==
    [JsonUndefined EXCEPT !.type = "string", !.nan = TRUE, !.core = core,
                          !.padded = padded]

\* The characters of a string value
Render(v) == IF v.padded THEN " " \o v.core \o " " ELSE v.core

\* JavaScript truthiness of a JSON value
JsonTruthy(v) ==
    \/ v.type = "number" /\ v.num # 0
    \/ v.type = "string" /\ (v.nan => Render(v) # "")

\* String(v).trim() of a text
Trim(v) == v.core

\* The strings that are empty once trimmed
BlankStrings == {Render(JsonText("", padded)) : padded \in BOOLEAN}

\* typeof v === 'number' ? v : (typeof v === 'string' ? parseFloat(v) ||
\* fallback : fallback)
NumberOr(v, fallback) ==
    IF v.type = "number" THEN v.num
    ELSE IF v.type = "string"
    THEN (IF v.nan \/ v.num = 0 THEN fallback ELSE v.num)
    ELSE fallback

\* The callback of extracted.items.map
MapResponseItem(item, index) ==
    LET description == IF JsonTruthy(item.description)
                       THEN Trim(item.description)
                       ELSE "Item " \o ToString(index)
        quantity == NumberOr(item.quantity, 1)
        rate == NumberOr(item.rate, 0)
        amount == NumberOr(item.amount, quantity * rate)
    IN  [id          |-> "item-" \o ToString(index),
         description |-> description,
         quantity    |-> IF quantity >= 1 THEN quantity ELSE 1,
         rate        |-> IF rate >= 0 THEN rate ELSE 0,
         amount      |-> IF amount >= 0 THEN amount ELSE 0]

\* extracted.items.map(...).filter(...)
RECURSIVE MapResponseItems(_)
MapResponseItems(list) ==
    IF Len(list) = 0 THEN <<>>
    ELSE LET item == MapResponseItem(list[Len(list)], Len(list))
             head == MapResponseItems(SubSeq(list, 1, Len(list) - 1))
         IN  IF item.description \notin BlankStrings /\ item.amount > 0
             THEN Append(head, item) ELSE head

\* invoiceData.items for the answer extracted: the mapped items, or one item
\* made from a bare total, or no items key
ResponseItems(extracted) ==
    IF Len(extracted.items) > 0
    THEN Items(MapResponseItems(extracted.items))
    ELSE IF extracted.total.type # "undefined"
    THEN LET total == NumberOr(extracted.total, 0)
         IN  IF total > 0
             THEN Items(<<[id          |-> "item-1",
                           description |-> IF JsonTruthy(extracted.notes)
                                           THEN Render(extracted.notes)
                                           ELSE "Service",
                           quantity    |-> 1,
                           rate        |-> total,
                           amount      |-> total]>>)
             ELSE NoItems
    ELSE NoItems

\* The items and the financial fields of the result extractWithAI makes of
\* the answer extracted; textTaxRate is what extractTaxRate finds in the text
ResponseFinancials(extracted, textTaxRate) ==
    LET Given(v) == v.type # "undefined"
        items == ResponseItems(extracted)
        firstSubtotal ==
            IF Given(extracted.subtotal) THEN Num(NumberOr(extracted.subtotal, 0))
            ELSE IF items.def /\ Len(items.val) > 0
            THEN Num(SumAmounts(items.val))
            ELSE NoNumber
        firstTotal ==
            IF Given(extracted.total) THEN Num(NumberOr(extracted.total, 0))
            ELSE firstSubtotal
        taxRate ==
            IF Given(extracted.taxRate) THEN Num(NumberOr(extracted.taxRate, 0))
            ELSE textTaxRate
        base == [EmptyPartial EXCEPT !.items = items, !.subtotal = firstSubtotal,
                                     !.total = firstTotal, !.taxRate = taxRate]
    IN  IF taxRate.def /\ taxRate.val > 0
        THEN IF Given(extracted.taxAmount)
             THEN [base EXCEPT !.taxAmount = Num(NumberOr(extracted.taxAmount, 0))]
             ELSE IF firstSubtotal.def /\ firstSubtotal.val > 0
             THEN LET taxAmount == TaxOf(firstSubtotal.val, taxRate.val)
                  IN  [base EXCEPT !.taxAmount = Num(taxAmount),
                                   !.total = Num(firstSubtotal.val + taxAmount)]
             ELSE IF firstTotal.def /\ firstTotal.val > 0
             THEN LET subtotal == Round2((firstTotal.val * 100) \div (100 + taxRate.val))
                  IN  [base EXCEPT !.subtotal = Num(subtotal),
                                   !.taxAmount = Num(firstTotal.val - subtotal)]
             ELSE base
        ELSE IF Given(extracted.taxAmount)
        THEN [base EXCEPT !.taxAmount = Num(NumberOr(extracted.taxAmount, 0))]
        ELSE base

\* What extractWithAI makes of two answers of the model with items: one whose amount is not quantity times
\* rate, beside totals of the model's own; and one whose only item has no
\* description, beside a total
MappedAnswers(textTaxRate) ==
    LET RawAnswers ==
          LET NoFinancials == [items |-> <<>>, subtotal |-> JsonUndefined,
                               total |-> JsonUndefined, taxRate |-> JsonUndefined,
                               taxAmount |-> JsonUndefined, notes |-> JsonUndefined]
          IN  { [NoFinancials EXCEPT
                   !.items = <<[description |-> JsonText("Logo design", FALSE),
                                quantity |-> JsonNumber(3),
                                rate |-> JsonNumber(250000),
                                amount |-> JsonNumber(600000)]>>,
                   !.total = JsonNumber(1000000),
                   !.taxRate = JsonNumber(18),
                   !.taxAmount = JsonNumber(50000)],
                [NoFinancials EXCEPT
                   !.items = <<[description |-> JsonText("", TRUE),
                                quantity |-> JsonNumber(1),
                                rate |-> JsonNumber(500000),
                                amount |-> JsonNumber(500000)]>>,
                   !.total = JsonNumber(500000)] }
    IN  { [parsed |-> TRUE,
           result |-> [ResponseFinancials(extracted, textTaxRate) EXCEPT
                         !.clientName = Text("AI name")]] :
          extracted \in RawAnswers }

\* The texts of the requests: with or without a client, items and an amount,
\* and one whose Items: block holds a single item of amount 0
RouteTexts ==
    { p \in ParsedTexts :
        /\ Len(p.structured.items) \in {0, 1}
        /\ Len(p.lineItems) \in {0, 2}
        /\ p.taxRate \in {NoNumber, Num(18)} }
    \cup { [FullText EXCEPT
               !.structured.items = <<[description |-> "Free consultation",
                                       amount |-> 0]>>,
               !.currencyFromAmount = Text("INR")] }

\* What extractWithAI makes of the model's answer: it cannot parse it, or it
\* maps it to a result with no field, with a client name only, or with a
\* client, items and amounts
ModelAnswers ==
    LET items == AiItemsUpTo(2)
    IN  { [parsed |-> FALSE, result |-> EmptyPartial],
          [parsed |-> TRUE, result |-> EmptyPartial],
          [parsed |-> TRUE,
           result |-> [EmptyPartial EXCEPT !.clientName = Text("AI name")]],
          [parsed |-> TRUE,
           result |-> [EmptyPartial EXCEPT
                         !.clientName = Text("AI name"),
                         !.currency = Text("USD"),
                         !.dueDate = Text("2025-03-20"),
                         !.items = Items(items),
                         !.subtotal = Num(SumAmounts(items)),
                         !.total = Num(SumAmounts(items))]] }

RouteInit ==
    /\ localStorage = None
    /\ currentYear = FirstYear
    /\ calls = <<>>
    /\ roundTrip = RoundTripIdle
    /\ parserCall = NoParserCall
    /\ parsedText = NoParsedText
    /\ regexResults = EmptyPartial
    /\ aiResults = EmptyPartial
    /\ merged = EmptyPartial
    /\ mergePc = "idle"
    /\ request = NoRequest
    /\ geminiApiKey \in BOOLEAN
    /\ routePc = "idle"
    /\ aiCallCount = 0
    /\ generation = "none"
    /\ timer = "none"
    /\ race = "none"
    /\ finalResults = EmptyPartial
    /\ extractionMethod = "regex"
    /\ aiError = NoAiError
    /\ mergedResults = EmptyPartial
    /\ mergedAgain = EmptyPartial
    /\ response = NoResponse

\* POST /api/extract, up to its response or to the await of extractWithAI
Post ==
    /\ routePc = "idle"
    /\ \E body \in {"unparseable", "noText", "blank", "text"}, useAI \in BOOLEAN :
         /\ request' = [via |-> "POST", body |-> body, useAI |-> useAI]
         /\ IF body # "text"
            THEN /\ response' = IF body = "unparseable"
                                THEN ErrorResponse(500, "NETWORK_ERROR")
                                ELSE ErrorResponse(400, "INVALID_INPUT")
                 /\ routePc' = "done"
                 /\ UNCHANGED <<parsedText, regexResults, aiResults, merged,
                                aiCallCount, generation, timer, race,
                                finalResults, extractionMethod, aiError,
                                mergedResults>>
            ELSE \E p \in RouteTexts :
                   LET r == extractWithRegex(p)
                   IN  /\ parsedText' = p
                       /\ regexResults' = r
                       /\ IF ShouldUseAI(useAI, r)
                          THEN CallExtractWithAI("POST", r)
                          ELSE /\ Complete("POST", r, AiNotCalled)
                               /\ UNCHANGED <<aiCallCount, generation, timer,
                                              race>>
    /\ UNCHANGED <<numberingVars, roundTrip, parserCall, mergePc, geminiApiKey, mergedAgain>>

\* extractInvoiceDataWithFallback(text, useAI), up to its return or to the
\* await of extractWithAI
ExtractInvoiceDataWithFallback ==
    /\ routePc = "idle"
    /\ \E useAI \in BOOLEAN, p \in RouteTexts :
         LET r == extractWithRegex(p)
         IN  /\ request' = [via |-> "extractInvoiceDataWithFallback",
                            body |-> "text", useAI |-> useAI]
             /\ parsedText' = p
             /\ regexResults' = r
             /\ IF useAI /\ geminiApiKey
                THEN CallExtractWithAI("extractInvoiceDataWithFallback", r)
                ELSE /\ Complete("extractInvoiceDataWithFallback", r,
                                 AiNotCalled)
                     /\ UNCHANGED <<aiCallCount, generation, timer, race>>
    /\ UNCHANGED <<numberingVars, roundTrip, parserCall, mergePc, geminiApiKey, mergedAgain>>

\* The promises and the caller's locals that a settling promise leaves alone
\* when the race has settled before
CallerUntouched ==
    UNCHANGED <<race, aiResults, merged, finalResults, extractionMethod,
                aiError, mergedResults, response, routePc>>

\* model.generateContent(prompt) fulfils.  If the race is pending, it settles
\* and extractWithAI goes on to parse the answer, and the caller to the end.
GenerationResolves ==
    /\ generation = "pending"
    /\ generation' = "fulfilled"
    /\ \E answer \in ModelAnswers \cup MappedAnswers(parsedText.taxRate) :
         IF RaceSettles(race)
         THEN /\ race' = "fulfilled"
              /\ Complete(request.via, regexResults,
                          IF answer.parsed THEN AiReturned(answer.result)
                          ELSE AiThrew("Failed to parse AI response as JSON"))
         ELSE CallerUntouched
    /\ UNCHANGED <<numberingVars, roundTrip, parserCall, mergePc, geminiApiKey, mergedAgain,
                   request, parsedText, regexResults, aiCallCount, timer>>

\* model.generateContent(prompt) rejects: the network or the service failed
GenerationRejects ==
    /\ generation = "pending"
    /\ generation' = "rejected"
    /\ IF RaceSettles(race)
       THEN /\ race' = "rejected"
            /\ Complete(request.via, regexResults, AiThrew("fetch failed"))
       ELSE CallerUntouched
    /\ UNCHANGED <<numberingVars, roundTrip, parserCall, mergePc, geminiApiKey, mergedAgain,
                   request, parsedText, regexResults, aiCallCount, timer>>

\* setTimeout(() => reject(new Error('AI extraction timeout')), 15000) fires;
\* nothing clears the timer when the model answers first
TimerFires ==
    /\ timer = "armed"
    /\ timer' = "fired"
    /\ IF RaceSettles(race)
       THEN /\ race' = "rejected"
            /\ Complete(request.via, regexResults,
                        AiThrew("AI extraction timeout"))
       ELSE CallerUntouched
    /\ UNCHANGED <<numberingVars, roundTrip, parserCall, mergePc, geminiApiKey, mergedAgain,
                   request, parsedText, regexResults, aiCallCount, generation>>

RouteNext ==
    \/ Post
    \/ ExtractInvoiceDataWithFallback
    \/ GenerationResolves
    \/ GenerationRejects
    \/ TimerFires

RouteSpec == RouteInit /\ [][RouteNext]_vars

-----------------------------------------------------------------------------
(* Properties of an extraction *)

\* The caller has returned after extractWithAI threw
AiFailed == routePc = "done" /\ aiError.def

\* The caller has returned after extractWithAI returned
AiSucceeded == routePc = "done" /\ aiCallCount > 0 /\ ~aiError.def

\* C16: when the AI call fails, the data returned is mergeResults of the
\* regex result, whatever the failure was and whatever the model did before
\* it: a function of the regex result and the defaults alone.
C16_FallbackDeterministic ==
    AiFailed =>
        /\ response.hasData
        /\ response.data = mergeResults(regexResults, Today)

\* The model answered, extractWithAI could not parse the answer, and the
\* caller returned the regex result of a text that names a client
C16_Witness ==
    /\ AiFailed
    /\ generation = "fulfilled"
    /\ aiError.reason = "Failed to parse AI response as JSON"
    /\ TruthyText(regexResults.clientName)
    /\ response.data.clientName = regexResults.clientName

\* C17: a POST request whose AI call fails is answered with HTTP 200, the
\* regex-derived data and the error code AI_SERVICE_UNAVAILABLE.
C17_AiUnavailableResponse ==
    (AiFailed /\ request.via = "POST") =>
        /\ response.status = 200
        /\ response.hasData
        /\ response.data = mergeResults(regexResults, Today)
        /\ response.errorCode = "AI_SERVICE_UNAVAILABLE"

C19_AiCalledOnce ==
    (routePc # "idle" /\ request.via = "POST") =>
        aiCallCount =
            IF /\ request.body = "text"
               /\ \/ request.useAI
                  \/ ~TruthyText(regexResults.clientName)
                  \/ (~TruthyNumber(regexResults.total)
                      /\ ~TruthyNumber(regexResults.subtotal))
                  \/ ~HasItems(regexResults)
            THEN 1 ELSE 0

\* The caller did not ask for the AI, the regex result lacked a field, the
\* one AI call failed and the response went out without a second call
C19_Witness ==
    /\ AiFailed
    /\ request.via = "POST"
    /\ ~request.useAI
    /\ MissingFields(regexResults) # {}
    /\ response.sent
    /\ aiCallCount = 1

\* C20: when the timer fires while the race is pending, the race rejects and
\* the caller returns data built from the regex result alone with the tag
\* 'regex'; and nothing that happens after a response has been returned, a
\* late answer of the model included, changes that response.
C20_TimeoutRace ==
    [][ /\ (timer = "armed" /\ timer' = "fired" /\ race = "pending") =>
             /\ race' = "rejected"
             /\ response'.sent
             /\ response'.data = mergeResults(regexResults, Today)
             /\ response'.extractionMethod = "regex"
        /\ response.sent => response' = response ]_vars

\* The timer fired first, the caller returned the regex result, and the
\* model's answer arrived afterwards
C20_Witness ==
    /\ timer = "fired"
    /\ race = "rejected"
    /\ aiError.reason = "AI extraction timeout"
    /\ generation = "fulfilled"
    /\ response.sent
    /\ response.data = mergeResults(regexResults, Today)

-----------------------------------------------------------------------------
(* The parsers of the engine, each called on its own *)

\* The longest items array of a model's answer.
MaxResponseItems == 2

\* The items a model's answer can hold: every combination of a description
\* (missing, empty, blank, a text with white space around it) with numbers,
\* numeric strings, other strings and missing values for the three numbers
ResponseItemChoices ==
    { [description |-> description, quantity |-> quantity, rate |-> rate,
       amount |-> amount] :
      description \in {JsonUndefined, JsonText("", FALSE), JsonText("", TRUE),
                       JsonText("Logo design", TRUE)},
      quantity \in {JsonUndefined, JsonNumber(0), JsonNumber(-2), JsonNumber(3),
                    JsonNumericString(2), JsonText("two", FALSE)},
      rate \in {JsonUndefined, JsonNumber(-100000), JsonNumber(250000),
                JsonNumericString(100000)},
      amount \in {JsonUndefined, JsonNumber(0), JsonNumber(-5000),
                  JsonNumber(600000), JsonNumericString(750000),
                  JsonText("n/a", FALSE)} }

\* The items arrays of up to n items; the items that follow the first one are
\* a plain one, one with a blank description and one with nothing but an
\* amount of 0
RECURSIVE ResponseItemLists(_)
ResponseItemLists(n) ==
    LET LaterResponseItems ==
          { [description |-> JsonText("Hosting", FALSE),
             quantity |-> JsonNumber(1), rate |-> JsonNumber(120000),
             amount |-> JsonNumber(120000)],
            [description |-> JsonText("", TRUE),
             quantity |-> JsonNumber(1), rate |-> JsonNumber(120000),
             amount |-> JsonNumber(120000)],
            [description |-> JsonUndefined, quantity |-> JsonUndefined,
             rate |-> JsonUndefined, amount |-> JsonNumber(0)] }
    IN  IF n = 0 THEN {<<>>}
        ELSE IF n = 1 THEN {<<item>> : item \in ResponseItemChoices}
        ELSE {Append(list, item) :
                list \in ResponseItemLists(n - 1),
                item \in LaterResponseItems}

ParserInit ==
    /\ localStorage = None
    /\ currentYear = FirstYear
    /\ calls = <<>>
    /\ roundTrip = RoundTripIdle
    /\ parserCall = NoParserCall
    /\ ExtractionIdle

\* The item mapping of extractWithAI on one answer
MapItemsOfResponse ==
    /\ parserCall.fn = "none"
    /\ LET ModelResponses ==
             { [items |-> list, total |-> JsonUndefined, notes |-> JsonUndefined] :
               list \in UNION {ResponseItemLists(n) : n \in 1..MaxResponseItems} }
             \cup
             { [items |-> <<>>, total |-> total, notes |-> notes] :
               total \in {JsonUndefined, JsonNumber(0), JsonNumber(500000),
                          JsonNumericString(500000), JsonText("n/a", FALSE)},
               notes \in {JsonUndefined, JsonText("", TRUE),
                          JsonText("Paid in full", FALSE)} }
       IN  \E extracted \in ModelResponses :
                parserCall' = [fn |-> "extractWithAI", input |-> extracted,
                               output |-> ResponseItems(extracted)]
    /\ UNCHANGED <<numberingVars, roundTrip, extractionVars, routeVars>>

\* C24: every item of an extractWithAI result has a description that is not
\* empty once trimmed, an amount above 0, a quantity of at least 1 and a rate
\* of at least 0, whatever the answer held.
C24_MappedItemsValid ==
    (parserCall.fn = "extractWithAI" /\ parserCall.output.def) =>
        \A i \in 1..Len(parserCall.output.val) :
            LET item == parserCall.output.val[i]
            IN  /\ item.description \notin BlankStrings
                /\ item.amount > 0
                /\ item.quantity >= 1
                /\ item.rate >= 0

-----------------------------------------------------------------------------
(* ExtractionEngine.extractLineItems.  The regular expressions are not      *)
(* modelled: the input holds, in the order of the text, what the sentence   *)
(* patterns matched and what the bullet pattern matched, each match with    *)
(* its trimmed description (a sequence of characters) and its amount in     *)
(* thousandths.  The operator is what the code does with the matches.       *)

\* String.prototype.toLowerCase()
toLowerCase(s) ==
    LET UpperCase == <<"A", "B", "C", "D", "E", "F", "G", "H", "I", "J", "K",
                       "L", "M", "N", "O", "P", "Q", "R", "S", "T", "U", "V",
                       "W", "X", "Y", "Z">>
        LowerCase == <<"a", "b", "c", "d", "e", "f", "g", "h", "i", "j", "k",
                       "l", "m", "n", "o", "p", "q", "r", "s", "t", "u", "v",
                       "w", "x", "y", "z">>
    IN  [i \in 1..Len(s) |->
            IF \E k \in 1..26 : UpperCase[k] = s[i]
            THEN LowerCase[CHOOSE k \in 1..26 : UpperCase[k] = s[i]]
            ELSE s[i]]

\* String.prototype.includes(sub)
includes(s, sub) ==
    \E i \in 1..(Len(s) - Len(sub) + 1) : SubSeq(s, i, i + Len(sub) - 1) = sub

Str_total == <<"t", "o", "t", "a", "l">>

Str_overall == <<"o", "v", "e", "r", "a", "l", "l">>

Str_amount_payable == <<"a", "m", "o", "u", "n", "t", " ", "p", "a", "y", "a", "b", "l", "e">>

\* The sanity ceiling of an amount: 100000 units
AmountCeiling == 100000000

\* The condition under which a match of a sentence pattern is skipped
SentenceMatchSkipped(description, amount) ==
    \/ Len(description) < 3
    \/ includes(toLowerCase(description), Str_total)
    \/ includes(toLowerCase(description), Str_amount_payable)
    \/ includes(toLowerCase(description), Str_overall)
    \/ amount > AmountCeiling
    \/ amount <= 0

\* The condition under which a match of the bullet pattern is taken
BulletMatchTaken(description, amount) ==
    /\ Len(description) >= 3
    /\ ~includes(toLowerCase(description), Str_total)
    /\ amount > 0
    /\ amount <= AmountCeiling

\* The matches of one kind, added to the items unless skipped or seen before
RECURSIVE CollectLineItems(_, _, _)
CollectLineItems(matches, bullet, acc) ==
    IF Len(matches) = 0 THEN acc
    ELSE LET m == Head(matches)
             itemKey == <<toLowerCase(m.description), m.amount>>
             taken == IF bullet THEN BulletMatchTaken(m.description, m.amount)
                      ELSE ~SentenceMatchSkipped(m.description, m.amount)
         IN  CollectLineItems(
               Tail(matches), bullet,
               IF taken /\ itemKey \notin acc.seenItems
               THEN [seenItems |-> acc.seenItems \cup {itemKey},
                     lineItems |->
                       Append(acc.lineItems,
                              [id          |-> "item-" \o
                                               ToString(Len(acc.lineItems) + 1),
                               description |-> m.description,
                               quantity    |-> 1,
                               rate        |-> m.amount,
                               amount      |-> m.amount])]
               ELSE acc)

extractLineItems(found) ==
    CollectLineItems(
      found.bullet, TRUE,
      CollectLineItems(found.sentence, FALSE,
                       [seenItems |-> {}, lineItems |-> <<>>])).lineItems

\* The most matches each kind of pattern finds in a text.
MaxMatches == 1

\* What a pattern can match.  Descriptions: too short, plain, and with each
\* of the words that mark a summary line.  Amounts: zero, an ordinary one,
\* the ceiling, one cent above it, and the digits of a phone number
LineItemMatches ==
    LET MatchedDescriptions ==
          { <<"a", "b">>,
            <<"W", "e", "b", " ", "d", "e", "s", "i", "g", "n">>,
            <<"G", "r", "a", "n", "d", " ", "T", "o", "t", "a", "l">>,
            <<"O", "v", "e", "r", "a", "l", "l", " ", "c", "h", "a", "r", "g",
              "e", "s">>,
            <<"A", "m", "o", "u", "n", "t", " ", "p", "a", "y", "a", "b", "l",
              "e", " ", "n", "o", "w">> }
        MatchedAmounts == {0, 5000000, 100000000, 100000010, 2000000000}
    IN  { [description |-> description, amount |-> amount] :
          description \in MatchedDescriptions, amount \in MatchedAmounts }

RECURSIVE MatchLists(_)
MatchLists(n) ==
    IF n = 0 THEN {<<>>}
    ELSE MatchLists(n - 1)
         \cup {Append(list, m) :
                 list \in {l \in MatchLists(n - 1) : Len(l) = n - 1},
                 m \in LineItemMatches}

\* extractLineItems on the matches of one text
ExtractLineItems ==
    /\ parserCall.fn = "none"
    /\ \E sentence \in MatchLists(MaxMatches), bullet \in MatchLists(MaxMatches) :
         LET found == [sentence |-> sentence, bullet |-> bullet]
         IN  parserCall' = [fn |-> "extractLineItems", input |-> found,
                            output |-> extractLineItems(found)]
    /\ UNCHANGED <<numberingVars, roundTrip, extractionVars, routeVars>>

\* C25: no line item returned by extractLineItems, whichever pattern found
\* it, has a description shorter than 3 characters, a description containing
\* 'total', 'overall' or 'amount payable', or an amount above 100,000.
C25_LineItemsFiltered ==
    parserCall.fn = "extractLineItems" =>
        \A i \in 1..Len(parserCall.output) :
            LET item == parserCall.output[i]
                lower == toLowerCase(item.description)
            IN  /\ Len(item.description) >= 3
                /\ ~includes(lower, Str_total)
                /\ ~includes(lower, Str_overall)
                /\ ~includes(lower, Str_amount_payable)
                /\ item.amount <= AmountCeiling

-----------------------------------------------------------------------------
(* ExtractionEngine.extractDates and normalizeDate.  The input holds the    *)
(* numbers the patterns captured: of a date with a month name the day, the  *)
(* month the name stands for and the year; of a numeric date its three      *)
(* numbers.  The output is text, formatted as the code formats it.          *)

\* `${year}-${String(month).padStart(2, '0')}-${String(day).padStart(2, '0')}`
IsoDate(year, month, day) ==
    NumberToString(year) \o <<"-">> \o padStart(NumberToString(month), 2, "0")
    \o <<"-">> \o padStart(NumberToString(day), 2, "0")

\* month >= 1 && month <= 12 && day >= 1 && day <= 31
MonthAndDayInRange(month, day) ==
    month >= 1 /\ month <= 12 /\ day >= 1 /\ day <= 31

\* The dates pushed for the matches of one pattern: the pattern with month
\* names tests the day, DD/MM/YYYY and DD-MM-YYYY test month and day, and
\* YYYY-MM-DD tests nothing
RECURSIVE PatternDates(_, _)
PatternDates(matches, pattern) ==
    IF Len(matches) = 0 THEN <<>>
    ELSE LET m == Head(matches)
             pushed == IF pattern = "text" THEN m.day >= 1 /\ m.day <= 31
                       ELSE IF pattern = "dayFirst"
                       THEN MonthAndDayInRange(m.month, m.day)
                       ELSE TRUE
         IN  (IF pushed THEN <<IsoDate(m.year, m.month, m.day)>> ELSE <<>>)
             \o PatternDates(Tail(matches), pattern)

extractDates(found) ==
    PatternDates(found.text, "text")
    \o PatternDates(found.dayFirst, "dayFirst")
    \o PatternDates(found.yearFirst, "yearFirst")

\* normalizeDate(dateStr) for a string that is empty, is YYYY-MM-DD with two
\* digits each for month and day ("iso"), has a month name with or without
\* a year ("text"), is numeric with the year last ("numeric") or with the
\* year first and one-digit parts ("isoLoose"), or is none of these
normalizeDate(dateStr, thisYear) ==
    IF dateStr.form = "empty" THEN None
    ELSE IF dateStr.form = "iso"
    THEN IF MonthAndDayInRange(dateStr.b, dateStr.c)
         THEN Some(IsoDate(dateStr.a, dateStr.b, dateStr.c))
         ELSE None
    ELSE IF dateStr.form = "text"
    THEN IF dateStr.a >= 1 /\ dateStr.a <= 31
         THEN Some(IsoDate(IF dateStr.hasYear THEN dateStr.c ELSE thisYear,
                           dateStr.b, dateStr.a))
         ELSE None
    ELSE IF dateStr.form = "numeric"
    THEN IF MonthAndDayInRange(dateStr.b, dateStr.a)
         THEN Some(IsoDate(dateStr.c, dateStr.b, dateStr.a))
         ELSE IF MonthAndDayInRange(dateStr.a, dateStr.b)
         THEN Some(IsoDate(dateStr.c, dateStr.a, dateStr.b))
         ELSE None
    ELSE IF dateStr.form = "isoLoose"
    THEN IF MonthAndDayInRange(dateStr.b, dateStr.c)
         THEN Some(IsoDate(dateStr.a, dateStr.b, dateStr.c))
         ELSE None
    ELSE None

\* The most dates the patterns find in a text.
MaxDates == 2

\* The days and months a pattern of one or two digits can capture
CapturedDays == {0, 1, 9, 31, 32, 45}

CapturedMonths == {0, 1, 12, 13}

\* The months a month name stands for
NamedMonths == {3, 12}

RECURSIVE DateMatchLists(_, _)
DateMatchLists(months, n) ==
    IF n = 0 THEN {<<>>}
    ELSE DateMatchLists(months, n - 1)
         \cup {Append(list, m) :
                 list \in {l \in DateMatchLists(months, n - 1) : Len(l) = n - 1},
                 m \in { [day |-> day, month |-> month, year |-> FirstYear] :
                         day \in CapturedDays, month \in months }}

\* extractDates on the matches of one text
ExtractDates ==
    /\ parserCall.fn = "none"
    /\ \E text \in DateMatchLists(NamedMonths, MaxDates) :
       \E dayFirst \in DateMatchLists(CapturedMonths, MaxDates - Len(text)) :
       \E yearFirst \in DateMatchLists(CapturedMonths,
                                       MaxDates - Len(text) - Len(dayFirst)) :
         LET found == [text |-> text, dayFirst |-> dayFirst,
                       yearFirst |-> yearFirst]
         IN  parserCall' = [fn |-> "extractDates", input |-> found,
                            output |-> extractDates(found)]
    /\ UNCHANGED <<numberingVars, roundTrip, extractionVars, routeVars>>

\* normalizeDate on a date of the model's answer
NormalizeDate ==
    /\ parserCall.fn = "none"
    /\ LET DateStrings ==
             { [form |-> "empty", a |-> 0, b |-> 0, c |-> 0, hasYear |-> FALSE],
               [form |-> "other", a |-> 0, b |-> 0, c |-> 0, hasYear |-> FALSE] }
             \cup { [form |-> form, a |-> year, b |-> month, c |-> day, hasYear |-> TRUE] :
                    form \in {"iso", "isoLoose"}, year \in Years,
                    month \in CapturedMonths, day \in CapturedDays }
             \cup { [form |-> "text", a |-> day, b |-> month, c |-> year,
                     hasYear |-> hasYear] :
                    day \in CapturedDays, month \in NamedMonths, year \in Years,
                    hasYear \in BOOLEAN }
             \cup { [form |-> "numeric", a |-> first, b |-> second, c |-> year,
                     hasYear |-> TRUE] :
                    first \in CapturedDays, second \in CapturedDays, year \in Years }
       IN  \E dateStr \in DateStrings :
                parserCall' = [fn |-> "normalizeDate", input |-> dateStr,
                               output |-> normalizeDate(dateStr, currentYear)]
    /\ UNCHANGED <<numberingVars, roundTrip, extractionVars, routeVars>>

ParserNext ==
    \/ MapItemsOfResponse
    \/ ExtractLineItems
    \/ ExtractDates
    \/ NormalizeDate

ParserSpec == ParserInit /\ [][ParserNext]_vars

\* A string of the form YYYY-MM-DD with a month in 1..12 and a day in 1..31
CanonicalDate(s) ==
    /\ Len(s) = 10
    /\ s[5] = "-" /\ s[8] = "-"
    /\ \A i \in {1, 2, 3, 4, 6, 7, 9, 10} : IsDigit(s[i])
    /\ MonthAndDayInRange(parseInt(SubSeq(s, 6, 7)), parseInt(SubSeq(s, 9, 10)))

\* C26: every date extractDates returns (the first becomes invoiceDate, the
\* second dueDate) and every date normalizeDate returns is of the form
\* YYYY-MM-DD with a month in 1..12 and a day in 1..31; a candidate out of
\* range, in either notation, is dropped.
C26_DatesCanonical ==
    /\ parserCall.fn = "extractDates" =>
         \A i \in 1..Len(parserCall.output) : CanonicalDate(parserCall.output[i])
    /\ parserCall.fn = "normalizeDate" =>
         (parserCall.output.def => CanonicalDate(parserCall.output.val))

-----------------------------------------------------------------------------
(* Totals of a merge without items *)

\* C22: when the merged items array is empty and a source supplied a total
\* or a subtotal, the output of mergeExtractionResults has both a total and
\* a subtotal, and they are equal when the sources supplied only one of the
\* two: a missing subtotal is set to the total and a missing total to the
\* subtotal.
C22_BareTotals ==
    LET totalGiven == regexResults.total.def \/ aiResults.total.def
        subtotalGiven == regexResults.subtotal.def \/ aiResults.subtotal.def
    IN  ( /\ mergePc = "merged"
          /\ ~HasItems(merged)
          /\ totalGiven \/ subtotalGiven )
        => /\ merged.total.def
           /\ merged.subtotal.def
           /\ ~(totalGiven /\ subtotalGiven)
              => merged.total.val = merged.subtotal.val

-----------------------------------------------------------------------------
(* What generateNext() persists *)

\* C28: every string that a returning generateNext() call persists is
\* accepted by parseInvoiceNumber, and the next generateNext() call does not
\* fail with a format error, also past sequence 999 (stated for the calls
\* that found the slot empty or holding a string parseInvoiceNumber accepts
\* of a year not after the current one, as the calls before them left it).
C28_PersistedParses ==
    \A i \in 1..Len(calls) :
        LET c == calls[i]
        IN  ( /\ c.kind = "returned"
              /\ \/ ~c.before.def
                 \/ /\ INVOICE_NUMBER_PATTERN(c.before.val)
                    /\ YearOf(c.before.val) <= c.year )
            => /\ c.after.def
               /\ INVOICE_NUMBER_PATTERN(c.after.val)
               /\ i < Len(calls) => calls[i + 1].error # "format"

\* C29: while a well-formed number of the current year is persisted, no
\* generateNext() call returns INV-<currentYear>-001 or overwrites the
\* persisted number with it, also when the read of the slot fails.
C29_NoRestartOnReadFailure ==
    \A i \in 1..Len(calls) :
        LET c == calls[i]
            first == formatInvoiceNumber(c.year, 1)
        IN  ( /\ c.before.def
              /\ WellFormedNumber(c.before.val)
              /\ YearOf(c.before.val) = c.year )
            => /\ ~(c.kind = "returned" /\ c.value = first)
               /\ c.after = Some(first) => c.after = c.before

-----------------------------------------------------------------------------
(* Totals of the data a caller receives *)

RECURSIVE QuantityTimesRateTotal(_)
QuantityTimesRateTotal(list) ==
    IF list = <<>> THEN 0
    ELSE Head(list).quantity * Head(list).rate
         + QuantityTimesRateTotal(Tail(list))

\* C23: when the data returned have items, regex-detected or AI-supplied,
\* their subtotal is the sum over the items of quantity * rate, within 0.01,
\* and every item's amount is its quantity * rate.
C23_SubtotalIsQuantityTimesRate ==
    ( /\ routePc = "done"
      /\ response.hasData
      /\ Len(response.data.items.val) > 0 )
    => LET data == response.data
       IN  /\ data.subtotal.def
           /\ Abs(data.subtotal.val - QuantityTimesRateTotal(data.items.val))
                <= 10
           /\ \A i \in 1..Len(data.items.val) :
                data.items.val[i].amount =
                    data.items.val[i].quantity * data.items.val[i].rate

-----------------------------------------------------------------------------
(* The arguments of the two merge methods *)

=============================================================================
